---- MODULE Spec2Model ----
(***************************************************************************)
(* Post lifecycle service of en9inerd/postpal (internal/zola/service.go)   *)
(* over a posts directory and the git collaborator (internal/git).         *)
(*                                                                         *)
(* File and directory names are sequences of one-character strings, so     *)
(* that strconv.FormatInt, strconv.ParseInt, strings.Split and the         *)
(* lexicographic order of os.ReadDir are computed, not assumed.            *)
(***************************************************************************)
EXTENDS Integers, Sequences, FiniteSets, TLC

VARIABLES
    fs,     \* the posts directory: [exists, dirs, files]
    git,    \* the repository: [index, head, commits]
    pre,    \* history: [fs, git] at the entry of the last operation
    last,   \* the last operation: its arguments, locals and result
    hist,   \* history: for each operation so far, its kind and whether it succeeded
    ops,    \* number of operations performed so far
    input,  \* the argument of the pure function under study
    output  \* the values it has returned so far, one per invocation

vars == <<fs, git, pre, last, hist, ops, input, output>>

-----------------------------------------------------------------------------
(* Bounds *)

IDSpan == 2
MaxMedia == 2
MaxBatch == 2
MaxOps == 2
MaxOpsFault == 1
MaxHead == 4
MaxPieces == 3
MaxCalls == 2
MaxTokens == 4
MaxTitle == 2

\* post identifiers: an interval that crosses a digit boundary
IDs == (10 - IDSpan)..10

-----------------------------------------------------------------------------
(* Strings as sequences of characters *)

DOT == "."
MD == <<".", "m", "d">>
INDEX == <<"i", "n", "d", "e", "x">>
INDEX_MD == <<"i", "n", "d", "e", "x", ".", "m", "d">>
IMAGE_ == <<"i", "m", "a", "g", "e", "_">>
JPG == <<"j", "p", "g">>
PNG == <<"p", "n", "g">>
GIF == <<"g", "i", "f">>
WEBP == <<"w", "e", "b", "p">>

Digits == <<"0", "1", "2", "3", "4", "5", "6", "7", "8", "9">>

IsDigit(c) == \E d \in 1..10 : Digits[d] = c

DigitVal(c) == (CHOOSE d \in 1..10 : Digits[d] = c) - 1

\* byte values of the characters that occur in names
Ord(c) ==
    CASE c = " " -> 32
      [] c = "+" -> 43
      [] c = "," -> 44
      [] c = "-" -> 45
      [] c = "." -> 46
      [] IsDigit(c) -> 48 + DigitVal(c)
      [] c = "_" -> 95
      [] c = "a" -> 97
      [] c = "b" -> 98
      [] c = "d" -> 100
      [] c = "e" -> 101
      [] c = "f" -> 102
      [] c = "g" -> 103
      [] c = "i" -> 105
      [] c = "j" -> 106
      [] c = "m" -> 109
      [] c = "n" -> 110
      [] c = "p" -> 112
      [] c = "w" -> 119
      [] c = "x" -> 120

\* Go's < on strings: bytewise lexicographic
RECURSIVE StrLess(_, _)
StrLess(a, b) ==
    IF Len(b) = 0 THEN FALSE
    ELSE IF Len(a) = 0 THEN TRUE
    ELSE IF a[1] # b[1] THEN Ord(a[1]) < Ord(b[1])
    ELSE StrLess(Tail(a), Tail(b))

HasPrefix(s, p) == Len(s) >= Len(p) /\ SubSeq(s, 1, Len(p)) = p

Contains(s, sub) ==
    \E i \in 1..(Len(s) - Len(sub) + 1) : SubSeq(s, i, i + Len(sub) - 1) = sub

\* strings.Split(s, sep) for a one-character separator
RECURSIVE Split(_, _)
Split(s, sep) ==
    IF \A i \in 1..Len(s) : s[i] # sep THEN <<s>>
    ELSE LET k == CHOOSE i \in 1..Len(s) :
                      s[i] = sep /\ \A j \in 1..(i - 1) : s[j] # sep
         IN <<SubSeq(s, 1, k - 1)>> \o Split(SubSeq(s, k + 1, Len(s)), sep)

\* white space: what strings.TrimSpace trims and what \s matches
IsSpace(c) == c \in {" ", "\n", "\t", "\r", "\f"}

RECURSIVE TrimLeft(_)
TrimLeft(s) == IF Len(s) > 0 /\ IsSpace(s[1]) THEN TrimLeft(Tail(s)) ELSE s

RECURSIVE TrimRightSpace(_)
TrimRightSpace(s) ==
    IF Len(s) > 0 /\ IsSpace(s[Len(s)]) THEN TrimRightSpace(SubSeq(s, 1, Len(s) - 1))
    ELSE s

TrimSpace(s) == TrimRightSpace(TrimLeft(s))

\* strconv.FormatInt(n, 10)
RECURSIVE FormatNat(_)
FormatNat(n) ==
    IF n < 10 THEN <<Digits[n + 1]>>
    ELSE FormatNat(n \div 10) \o <<Digits[(n % 10) + 1]>>

FormatInt(n) == IF n < 0 THEN <<"-">> \o FormatNat(0 - n) ELSE FormatNat(n)

RECURSIVE DigitsVal(_)
DigitsVal(s) ==
    IF Len(s) = 0 THEN 0
    ELSE 10 * DigitsVal(SubSeq(s, 1, Len(s) - 1)) + DigitVal(s[Len(s)])

\* strconv.ParseInt(s, 10, 64): an optional sign, then one or more digits
ParseInt(s) ==
    LET signed == Len(s) > 0 /\ s[1] \in {"+", "-"}
        body == IF signed THEN Tail(s) ELSE s
    IN IF Len(body) = 0 \/ \E i \in 1..Len(body) : ~IsDigit(body[i])
       THEN [ok |-> FALSE, val |-> 0]
       ELSE [ok |-> TRUE,
             val |-> IF signed /\ s[1] = "-" THEN 0 - DigitsVal(body) ELSE DigitsVal(body)]

\* mutant: the index is written one-based
ImageName_OneBased(index, format) == IMAGE_ \o FormatInt(index + 1) \o <<DOT>> \o format

\* fmt.Sprintf("image_%d.%s", index, format)
ImageName(index, format) == IMAGE_ \o FormatInt(index) \o <<DOT>> \o format

abs(x) == IF x < 0 THEN 0 - x ELSE x

\* sort.Slice(names, less) over a set of distinct names
RECURSIVE SortNames(_)
SortNames(S) ==
    IF S = {} THEN <<>>
    ELSE LET m == CHOOSE x \in S : \A y \in S \ {x} : StrLess(x, y)
         IN <<m>> \o SortNames(S \ {m})

-----------------------------------------------------------------------------
(* Image classifier *)

getImageFormat(data) ==
    IF Len(data) < 4 THEN JPG
    ELSE IF Len(data) >= 4 /\ data[1] = 255 /\ data[2] = 216 /\ data[3] = 255 THEN JPG
    ELSE IF Len(data) >= 8 /\ data[1] = 137 /\ data[2] = 80 /\ data[3] = 78 /\ data[4] = 71
         THEN PNG
    ELSE IF Len(data) >= 6 /\ data[1] = 71 /\ data[2] = 73 /\ data[3] = 70 THEN GIF
    ELSE IF Len(data) >= 12 /\ data[1] = 82 /\ data[2] = 73 /\ data[3] = 70 /\ data[4] = 70
            /\ SubSeq(data, 9, 12) = <<87, 69, 66, 80>>
         THEN WEBP
    ELSE JPG

-----------------------------------------------------------------------------
(* Finite maps *)

EmptyMap == [x \in {} |-> 0]

Put(f, k, v) == [x \in (DOMAIN f) \cup {k} |-> IF x = k THEN v ELSE f[x]]

Drop(f, K) == [x \in (DOMAIN f) \ K |-> f[x]]

-----------------------------------------------------------------------------
(* One invocation of an operation: the stores it works on, the collaborator *)
(* calls it has made, and the external fault (if any) injected into it.     *)
(* A path is relative to the posts directory: <<>> is the directory itself, *)
(* <<name>> a top-level entry, <<dir, name>> an entry of a unit directory.  *)

Kinds == {"ReadDir", "MkdirAll", "WriteFile", "RemoveAll", "Remove",
          "Add", "GitRemove", "Commit", "Push"}

NoFault == [call |-> "none", n |-> 0]

Run(f, g, fault) ==
    [fs |-> f, git |-> g, calls |-> <<>>, cnt |-> [k \in Kinds |-> 0],
     fault |-> fault, ok |-> TRUE, notExist |-> FALSE, names |-> <<>>]

\* the call about to be made is the one the fault names
Faulted(m, kind) == m.fault = [call |-> kind, n |-> m.cnt[kind] + 1]

Tick(m, kind) == [m EXCEPT !.cnt[kind] = @ + 1, !.ok = TRUE, !.notExist = FALSE]

Fail(m) == [m EXCEPT !.ok = FALSE]

IsFile(f, path) == path \in DOMAIN f.files

IsDir(f, path) ==
    \/ path = <<>> /\ f.exists
    \/ Len(path) = 1 /\ path[1] \in f.dirs

TopNames(f) == f.dirs \cup {p[1] : p \in {q \in DOMAIN f.files : Len(q) = 1}}

DirNames(f, d) == {p[2] : p \in {q \in DOMAIN f.files : Len(q) = 2 /\ q[1] = d}}

\* os.MkdirAll(path): creates the directory and its parents, nil if it exists
MkdirAll(m, path) ==
    LET t == Tick(m, "MkdirAll")
    IN IF Faulted(m, "MkdirAll") \/ IsFile(m.fs, path) THEN Fail(t)
       ELSE [t EXCEPT !.fs.exists = TRUE,
                      !.fs.dirs = IF Len(path) = 1 THEN @ \cup {path[1]} ELSE @]

\* os.WriteFile(path, data): create or truncate; the parent must exist
WriteFile(m, path, data) ==
    LET t == Tick(m, "WriteFile")
    IN IF \/ Faulted(m, "WriteFile")
          \/ ~IsDir(m.fs, SubSeq(path, 1, Len(path) - 1))
          \/ IsDir(m.fs, path)
       THEN Fail(t)
       ELSE [t EXCEPT !.fs.files = Put(@, path, data)]

\* os.ReadDir(path): the entry names sorted by file name
ReadDir(m, path) ==
    LET t == Tick(m, "ReadDir")
    IN IF Faulted(m, "ReadDir") \/ IsFile(m.fs, path) THEN Fail(t)
       ELSE IF ~IsDir(m.fs, path) THEN [Fail(t) EXCEPT !.notExist = TRUE]
       ELSE [t EXCEPT !.names = SortNames(IF path = <<>> THEN TopNames(m.fs)
                                          ELSE DirNames(m.fs, path[1]))]

\* os.RemoveAll(path): removes path and everything below it, nil if absent
RemoveAll(m, path) ==
    LET t == Tick(m, "RemoveAll")
    IN IF Faulted(m, "RemoveAll") THEN Fail(t)
       ELSE [t EXCEPT !.fs.dirs = @ \ {path[1]},
                      !.fs.files = Drop(@, {q \in DOMAIN @ : q[1] = path[1]})]

\* os.Remove(path): removes a file or an empty directory
Remove(m, path) ==
    LET t == Tick(m, "Remove")
    IN IF Faulted(m, "Remove") THEN Fail(t)
       ELSE IF IsFile(m.fs, path) THEN [t EXCEPT !.fs.files = Drop(@, {path})]
       ELSE IF IsDir(m.fs, path) /\ DirNames(m.fs, path[1]) = {}
            THEN [t EXCEPT !.fs.dirs = @ \ {path[1]}]
       ELSE Fail(t)

-----------------------------------------------------------------------------
(* git.Service: the staging area (index), the last commit (head) and the    *)
(* commits made, over the paths of the posts directory.                     *)

Call(m, name, arg) == [m EXCEPT !.calls = Append(@, <<name, arg>>)]

\* git.Service.Add: stat the file, then stage it
Add(m, path) ==
    LET t == Call(Tick(m, "Add"), "Add", path)
    IN IF Faulted(m, "Add") \/ ~(IsFile(m.fs, path) \/ IsDir(m.fs, path)) THEN Fail(t)
       ELSE IF IsFile(m.fs, path)
            THEN [t EXCEPT !.git.index = Put(@, path, m.fs.files[path])]
       ELSE t

\* git.Service.Remove: drop the path from the index, then from the worktree
GitRemove(m, path) ==
    LET t == Call(Tick(m, "GitRemove"), "Remove", path)
    IN IF Faulted(m, "GitRemove") \/ path \notin DOMAIN m.git.index THEN Fail(t)
       ELSE [t EXCEPT !.git.index = Drop(@, {path}),
                      !.fs.files = Drop(@, {path})]

\* Status.IsClean: nothing staged and the worktree equal to the index
IsClean(f, g) == g.index = g.head /\ f.files = g.index

\* mutant: only the staged removals are committed
Commit_OnlyRemovals(m, message) ==
    LET t == Tick(m, "Commit")
        kept == {p \in DOMAIN m.git.head : p \in DOMAIN m.git.index}
    IN IF Faulted(m, "Commit") \/ IsClean(m.fs, m.git) \/ m.git.index = m.git.head
       THEN Fail(t)
       ELSE [t EXCEPT !.git.head = [p \in kept |-> m.git.head[p]],
                      !.git.commits = Append(@, [message |-> message,
                          paths |-> (DOMAIN m.git.head) \ kept])]

\* git.Service.Commit: refuses a clean status; the worktree's Commit refuses a
\* tree equal to its parent's; else the index becomes the new head
Commit(m, message) ==
    LET t == Tick(m, "Commit")
    IN IF Faulted(m, "Commit") \/ IsClean(m.fs, m.git) \/ m.git.index = m.git.head
       THEN Fail(t)
       ELSE [t EXCEPT !.git.head = m.git.index,
                      !.git.commits = Append(@, [message |-> message,
                          paths |-> {p \in (DOMAIN m.git.index) \cup (DOMAIN m.git.head) :
                                       \/ p \notin DOMAIN m.git.index
                                       \/ p \notin DOMAIN m.git.head
                                       \/ m.git.index[p] # m.git.head[p]}])]

\* git.Service.Push
Push(m) ==
    LET t == Tick(m, "Push")
    IN IF Faulted(m, "Push") THEN Fail(t) ELSE t

\* git.Service.CommitAndPush
CommitAndPush(m, message) ==
    LET c == Commit(Call(m, "CommitAndPush", message), message)
    IN IF ~c.ok THEN c ELSE Push(c)

-----------------------------------------------------------------------------
(* ProcessContent: Telegram HTML to Markdown.  A content is a sequence of   *)
(* one-character strings; each regular expression of the source is matched  *)
(* as the regexp package matches it: leftmost, its lazy groups shortest.     *)

CODE_OPEN == <<"<", "c", "o", "d", "e", ">">>
CODE_CLOSE == <<"<", "/", "c", "o", "d", "e", ">">>
LT == <<"&", "l", "t", ";">>
GT == <<"&", "g", "t", ";">>
PRE_OPEN ==
    <<"<", "p", "r", "e", ">", "<", "c", "o", "d", "e", " ", "c", "l", "a",
      "s", "s", "=", "\"", "l", "a", "n", "g", "u", "a", "g", "e", "-">>
QUOTE_GT == <<"\"", ">">>
PRE_CLOSE ==
    <<"<", "/", "c", "o", "d", "e", ">", "<", "/", "p", "r", "e", ">">>
\* the grave accent, a character no string of this language can hold
GRAVE == "grave"
FENCE == <<GRAVE, GRAVE, GRAVE>>
NL == <<"\n">>
PLACEHOLDER_ ==
    <<"_", "_", "_", "C", "O", "D", "E", "B", "L", "O", "C", "K", "_">>
UNDERSCORES == <<"_", "_", "_">>
BLOCKQUOTE_OPEN ==
    <<"<", "b", "l", "o", "c", "k", "q", "u", "o", "t", "e", ">">>
BLOCKQUOTE_CLOSE ==
    <<"<", "/", "b", "l", "o", "c", "k", "q", "u", "o", "t", "e", ">">>
BR == <<"<", "b", "r", ">">>
HARD_BREAK == <<" ", " ", "\n">>
DOUBLE_BREAK == <<" ", " ", "\n", " ", " ", "\n">>
BREAK_BLANK == <<" ", " ", "\n", "\n">>
SPOILER_OPEN == <<"<", "s", "p", "o", "i", "l", "e", "r", ">">>
SPOILER_CLOSE == <<"<", "/", "s", "p", "o", "i", "l", "e", "r", ">">>
SPAN_OPEN ==
    <<"<", "s", "p", "a", "n", " ", "c", "l", "a", "s", "s", "=", "\"", "s",
      "p", "o", "i", "l", "e", "r", "\"", ">">>
SPAN_CLOSE == <<"<", "/", "s", "p", "a", "n", ">">>

\* strings.Index on s[from:], as a position of s; 0 when sub does not occur
IndexFrom(s, sub, from) ==
    LET at == {i \in from..(Len(s) - Len(sub) + 1) :
                  SubSeq(s, i, i + Len(sub) - 1) = sub}
    IN IF at = {} THEN 0 ELSE CHOOSE i \in at : \A j \in at : i <= j

\* strings.ReplaceAll
RECURSIVE ReplaceAll(_, _, _)
ReplaceAll(s, old, new) ==
    LET Cut(i) ==
            IF i = 0 THEN s
            ELSE SubSeq(s, 1, i - 1) \o new
                 \o ReplaceAll(SubSeq(s, i + Len(old), Len(s)), old, new)
    IN Cut(IndexFrom(s, old, 1))

\* strings.TrimRight(s, "\n")
RECURSIVE TrimRightNewlines(_)
TrimRightNewlines(s) ==
    IF Len(s) > 0 /\ s[Len(s)] = "\n" THEN TrimRightNewlines(SubSeq(s, 1, Len(s) - 1))
    ELSE s

\* the leftmost match of open([\s\S]*?)close in s; at = 0 when there is none
MatchSpan(s, open, close) ==
    LET Closed(i, j) ==
            IF j = 0 THEN [at |-> 0, inner |-> <<>>, next |-> 0]
            ELSE [at |-> i, inner |-> SubSeq(s, i + Len(open), j - 1),
                  next |-> j + Len(close)]
        Opened(i) ==
            IF i = 0 THEN [at |-> 0, inner |-> <<>>, next |-> 0]
            ELSE Closed(i, IndexFrom(s, close, i + Len(open)))
    IN Opened(IndexFrom(s, open, 1))

\* lines 16-22: < and > are escaped inside <code>...</code>
RECURSIVE EscapeInlineCode(_)
EscapeInlineCode(content) ==
    LET Matched(x) ==
            IF x.at = 0 THEN content
            ELSE SubSeq(content, 1, x.at - 1) \o CODE_OPEN
                 \o ReplaceAll(ReplaceAll(x.inner, <<"<">>, LT), <<">">>, GT)
                 \o CODE_CLOSE
                 \o EscapeInlineCode(SubSeq(content, x.next, Len(content)))
    IN Matched(MatchSpan(content, CODE_OPEN, CODE_CLOSE))

\* the leftmost match of <pre><code class="language-(.*?)">([\s\S]*?)</code></pre>
\* in s: the language holds no newline and ends at the first "> after it
MatchCodeBlock(s) ==
    LET LangEnd(i) == IndexFrom(s, QUOTE_GT, i + Len(PRE_OPEN))
        BodyEnd(i) == IndexFrom(s, PRE_CLOSE, LangEnd(i) + Len(QUOTE_GT))
        at == {i \in 1..(Len(s) - Len(PRE_OPEN) + 1) :
                  /\ SubSeq(s, i, i + Len(PRE_OPEN) - 1) = PRE_OPEN
                  /\ LangEnd(i) # 0
                  /\ ~Contains(SubSeq(s, i + Len(PRE_OPEN), LangEnd(i) - 1), NL)
                  /\ BodyEnd(i) # 0}
        At(i) == [at |-> i,
                  language |-> SubSeq(s, i + Len(PRE_OPEN), LangEnd(i) - 1),
                  code |-> SubSeq(s, LangEnd(i) + Len(QUOTE_GT), BodyEnd(i) - 1),
                  next |-> BodyEnd(i) + Len(PRE_CLOSE)]
    IN IF at = {} THEN [at |-> 0, language |-> <<>>, code |-> <<>>, next |-> 0]
       ELSE At(CHOOSE i \in at : \A j \in at : i <= j)

\* string(rune('A'+codeIndex))
Letters ==
    <<"A", "B", "C", "D", "E", "F", "G", "H", "I", "J", "K", "L", "M",
      "N", "O", "P", "Q", "R", "S", "T", "U", "V", "W", "X", "Y", "Z">>

\* line 32
Placeholder(codeIndex) == PLACEHOLDER_ \o <<Letters[codeIndex + 1]>> \o UNDERSCORES

\* lines 30-31
MarkdownCodeBlock(language, code) ==
    FENCE \o language \o NL \o TrimRightNewlines(code) \o NL \o FENCE

\* lines 24-36: the content with a placeholder for each fenced block, and the
\* side table as the sequence of its entries in the order of their insertion
RECURSIVE ExtractCodeBlocks(_, _)
ExtractCodeBlocks(content, codeIndex) ==
    LET Rest(x, r) ==
            [content |-> SubSeq(content, 1, x.at - 1) \o Placeholder(codeIndex)
                         \o r.content,
             blocks |-> <<[placeholder |-> Placeholder(codeIndex),
                           block |-> MarkdownCodeBlock(x.language, x.code)]>>
                        \o r.blocks]
        Matched(x) ==
            IF x.at = 0 THEN [content |-> content, blocks |-> <<>>]
            ELSE Rest(x, ExtractCodeBlocks(SubSeq(content, x.next, Len(content)),
                                           codeIndex + 1))
    IN Matched(MatchCodeBlock(content))

\* lines 38-43: newlines inside <blockquote>...</blockquote> become <br>
RECURSIVE BreakBlockquotes(_)
BreakBlockquotes(content) ==
    LET Matched(x) ==
            IF x.at = 0 THEN content
            ELSE SubSeq(content, 1, x.at - 1) \o BLOCKQUOTE_OPEN
                 \o ReplaceAll(x.inner, NL, BR) \o BLOCKQUOTE_CLOSE
                 \o BreakBlockquotes(SubSeq(content, x.next, Len(content)))
    IN Matched(MatchSpan(content, BLOCKQUOTE_OPEN, BLOCKQUOTE_CLOSE))

\* mutant: the doubled hard break is left as it is
HardBreaks_Uncollapsed(content) == ReplaceAll(content, NL, HARD_BREAK)

\* lines 45-46
HardBreaks(content) ==
    ReplaceAll(ReplaceAll(content, NL, HARD_BREAK), DOUBLE_BREAK, BREAK_BLANK)

\* lines 48-50: the side table is a map and is ranged over in any order;
\* order lists the entries (by their insertion number) as the range visits them
RECURSIVE Reinsert(_, _, _)
Reinsert(content, blocks, order) ==
    IF Len(order) = 0 THEN content
    ELSE Reinsert(IF Head(order) \in DOMAIN blocks
                  THEN ReplaceAll(content, blocks[Head(order)].placeholder,
                                  blocks[Head(order)].block)
                  ELSE content,
                  blocks, Tail(order))

\* lines 52-53
RECURSIVE ReplaceSpoilers(_)
ReplaceSpoilers(content) ==
    LET Matched(x) ==
            IF x.at = 0 THEN content
            ELSE SubSeq(content, 1, x.at - 1) \o SPAN_OPEN \o x.inner \o SPAN_CLOSE
                 \o ReplaceSpoilers(SubSeq(content, x.next, Len(content)))
    IN Matched(MatchSpan(content, SPOILER_OPEN, SPOILER_CLOSE))

\* mutant: the hard line breaks are made after the blocks are back
ProcessContent_BreaksLast(content, order) ==
    LET Extracted(x) ==
            ReplaceSpoilers(HardBreaks(Reinsert(BreakBlockquotes(x.content),
                                                x.blocks, order)))
    IN IF content = <<>> THEN <<>>
       ELSE Extracted(ExtractCodeBlocks(EscapeInlineCode(content), 0))

ProcessContent(content, order) ==
    LET Extracted(x) ==
            ReplaceSpoilers(Reinsert(HardBreaks(BreakBlockquotes(x.content)),
                                     x.blocks, order))
    IN IF content = <<>> THEN <<>>
       ELSE Extracted(ExtractCodeBlocks(EscapeInlineCode(content), 0))

-----------------------------------------------------------------------------
(* Title and address: ExtractTitle and RemoveAddressPattern, the pattern    *)
(* matched as the regexp package matches it: leftmost, the optional group   *)
(* and the digits greedy.                                                    *)

\* the channel the service is configured for, the fallback title
CHANNEL == <<"@", "c", "h">>

\* the characters of the address pattern
ZERO_X == <<"0", "x">>
HexDigits ==
    {"0", "1", "2", "3", "4", "5", "6", "7", "8", "9", "a", "b", "c", "d",
     "e", "f", "A", "B", "C", "D", "E", "F"}
IsHex(c) == c \in HexDigits

\* $ under (?m): position i of s is the end of the text or stands before a
\* newline
AtLineEnd(s, i) == i = Len(s) + 1 \/ (i <= Len(s) /\ s[i] = "\n")

\* (\s\s\n) at position i
SpacesNewlineAt(s, i) ==
    i + 2 <= Len(s) /\ IsSpace(s[i]) /\ IsSpace(s[i + 1]) /\ s[i + 2] = "\n"

\* the position after the longest run of hex digits that starts at i
RECURSIVE HexRunEnd(_, _)
HexRunEnd(s, i) == IF i <= Len(s) /\ IsHex(s[i]) THEN HexRunEnd(s, i + 1) ELSE i

\* 0x[0-9a-fA-F]+\n?$ at position i: the position after the match, 0 when
\* there is none. The digits are taken greedily; a shorter run is followed
\* by a digit, where neither \n nor $ matches. The newline is taken first
\* and given back when $ does not hold after it.
AddressAt(s, i) ==
    LET Ended(p) ==
            IF p = i + 2 THEN 0
            ELSE IF p <= Len(s) /\ s[p] = "\n" /\ AtLineEnd(s, p + 1) THEN p + 1
            ELSE IF AtLineEnd(s, p) THEN p
            ELSE 0
    IN IF i + 1 <= Len(s) /\ SubSeq(s, i, i + 1) = ZERO_X
       THEN Ended(HexRunEnd(s, i + 2))
       ELSE 0

\* the whole pattern at position i: the optional group is tried first, and
\* skipped when the rest does not match after it
MatchAddressAt(s, i) ==
    LET Grouped(e) == IF e # 0 THEN e ELSE AddressAt(s, i)
    IN IF SpacesNewlineAt(s, i) THEN Grouped(AddressAt(s, i + 3)) ELSE AddressAt(s, i)

\* the leftmost match of the pattern in s at or after from: its first
\* position and the position after it, at = 0 when there is none
FindAddress(s, from) ==
    LET at == {i \in from..Len(s) : MatchAddressAt(s, i) # 0}
        First(i) == [at |-> i, next |-> MatchAddressAt(s, i)]
    IN IF at = {} THEN [at |-> 0, next |-> 0]
       ELSE First(CHOOSE i \in at : \A j \in at : i <= j)

LBRACKET == <<" ", "[">>
RBRACKET == <<"]">>

ExtractTitle(content, channelID) ==
    LET Titled(m) ==
            IF m.at # 0
            THEN channelID \o LBRACKET
                 \o TrimSpace(SubSeq(content, m.at, m.next - 1)) \o RBRACKET
            ELSE channelID
    IN IF content = <<>> THEN channelID ELSE Titled(FindAddress(content, 1))

\* ReplaceAllString(content, ""): every match, left to right, none
\* overlapping, is dropped
RECURSIVE RemoveAddressFrom(_, _)
RemoveAddressFrom(content, from) ==
    LET Cut(m) ==
            IF m.at = 0 THEN SubSeq(content, from, Len(content))
            ELSE SubSeq(content, from, m.at - 1) \o RemoveAddressFrom(content, m.next)
    IN Cut(FindAddress(content, from))

RemoveAddressPattern(content) == RemoveAddressFrom(content, 1)

-----------------------------------------------------------------------------
(* zola.Service *)

\* what an operation returns, with the locals the properties speak of
Result(m, err, e, done) ==
    [fs |-> m.fs, git |-> m.git, calls |-> m.calls, cnt |-> m.cnt, err |-> err,
     editablePostID |-> e, done |-> done]

\* the order in which the range over the side table of content visits its
\* entries when the content holds at most one fenced block, as every content
\* handed to the service here does
OnlyOrder(content) ==
    [i \in 1..Len(ExtractCodeBlocks(EscapeInlineCode(content), 0).blocks) |-> i]

\* the markup file written for a post: the title and the image list of its
\* front matter, and its body; the title is derived from the content when
\* the caller gave none, the body is the processed content less the address
\* pattern, and a newline
PostFile(post) ==
    [Title |-> IF post.Title = <<>> THEN ExtractTitle(post.Content, CHANNEL)
               ELSE post.Title,
     ImageNames |-> post.ImageNames,
     Content |-> RemoveAddressPattern(ProcessContent(post.Content,
                                                     OnlyOrder(post.Content)))
                 \o NL]

\* mutant: every media file is written from the first buffer
RECURSIVE CreateMedia_FirstBuffer(_, _, _, _)
CreateMedia_FirstBuffer(m, post, mediaFiles, i) ==
    IF i > Len(mediaFiles) THEN Result(m, "", post.ID, <<>>)
    ELSE LET imagePath == <<FormatInt(post.ID), post.ImageNames[i]>>
             w == WriteFile(m, imagePath, mediaFiles[1])
         IN IF ~w.ok THEN Result(w, "failed to write image file", post.ID, <<>>)
            ELSE LET a == Add(w, imagePath)
                 IN IF ~a.ok
                    THEN Result(a, "failed to add image file to git", post.ID, <<>>)
                    ELSE CreateMedia_FirstBuffer(a, post, mediaFiles, i + 1)

\* mutant: a failed staging of a media file is dropped
RECURSIVE CreateMedia_IgnoreAddError(_, _, _, _)
CreateMedia_IgnoreAddError(m, post, mediaFiles, i) ==
    IF i > Len(mediaFiles) THEN Result(m, "", post.ID, <<>>)
    ELSE LET imagePath == <<FormatInt(post.ID), post.ImageNames[i]>>
             w == WriteFile(m, imagePath, mediaFiles[i])
         IN IF ~w.ok THEN Result(w, "failed to write image file", post.ID, <<>>)
            ELSE CreateMedia_IgnoreAddError(Add(w, imagePath), post, mediaFiles, i + 1)

\* CreatePost, lines 83-95: write and stage media file i (1-based here)
RECURSIVE CreateMedia(_, _, _, _)
CreateMedia(m, post, mediaFiles, i) ==
    IF i > Len(mediaFiles) THEN Result(m, "", post.ID, <<>>)
    ELSE LET imagePath == <<FormatInt(post.ID), post.ImageNames[i]>>
             w == WriteFile(m, imagePath, mediaFiles[i])
         IN IF ~w.ok THEN Result(w, "failed to write image file", post.ID, <<>>)
            ELSE LET a == Add(w, imagePath)
                 IN IF ~a.ok
                    THEN Result(a, "failed to add image file to git", post.ID, <<>>)
                    ELSE CreateMedia(a, post, mediaFiles, i + 1)

\* mutant: the markup file lists no image
CreatePost_NoImageList(m, post0, mediaFiles) ==
    LET imageNames == [i \in 1..Len(mediaFiles) |->
                          ImageName(i - 1, getImageFormat(mediaFiles[i]))]
        post == [post0 EXCEPT !.ImageNames = imageNames]
        idStr == FormatInt(post.ID)
        withDir == Len(post.ImageNames) > 0
        filename == IF withDir THEN <<idStr, INDEX_MD>> ELSE <<idStr \o MD>>
        Staged(a) ==
            IF ~a.ok THEN Result(a, "failed to add post file to git", post.ID, <<>>)
            ELSE CreateMedia(a, post, mediaFiles, 1)
        Written(w) ==
            IF ~w.ok THEN Result(w, "failed to write post file", post.ID, <<>>)
            ELSE Staged(Add(w, filename))
        Made(d) ==
            IF ~d.ok
            THEN Result(d, IF withDir THEN "failed to create post directory"
                           ELSE "failed to create posts directory", post.ID, <<>>)
            ELSE Written(WriteFile(d, filename, PostFile(post0)))
    IN Made(MkdirAll(m, IF withDir THEN <<idStr>> ELSE <<>>))

CreatePost(m, post0, mediaFiles) ==
    LET imageNames == [i \in 1..Len(mediaFiles) |->
                          ImageName(i - 1, getImageFormat(mediaFiles[i]))]
        post == [post0 EXCEPT !.ImageNames = imageNames]
        idStr == FormatInt(post.ID)
        withDir == Len(post.ImageNames) > 0
        filename == IF withDir THEN <<idStr, INDEX_MD>> ELSE <<idStr \o MD>>
        d == MkdirAll(m, IF withDir THEN <<idStr>> ELSE <<>>)
    IN IF ~d.ok
       THEN Result(d, IF withDir THEN "failed to create post directory"
                      ELSE "failed to create posts directory", post.ID, <<>>)
       ELSE LET w == WriteFile(d, filename, PostFile(post))
            IN IF ~w.ok THEN Result(w, "failed to write post file", post.ID, <<>>)
               ELSE LET a == Add(w, filename)
                    IN IF ~a.ok
                       THEN Result(a, "failed to add post file to git", post.ID, <<>>)
                       ELSE CreateMedia(a, post, mediaFiles, 1)

\* getEditablePostID, lines 251-273: the identifiers of the scanned entries
RECURSIVE ScanPostIDs(_)
ScanPostIDs(names) ==
    IF Len(names) = 0 THEN <<>>
    ELSE LET name == Head(names)
             parsed == IF Contains(name, <<DOT>>)
                       THEN ParseInt(Split(name, DOT)[1])
                       ELSE ParseInt(name)
         IN IF Contains(name, INDEX) \/ ~parsed.ok
            THEN ScanPostIDs(Tail(names))
            ELSE <<parsed.val>> \o ScanPostIDs(Tail(names))

\* mutant: the comparison is reversed
RECURSIVE Closest_Farthest(_, _, _, _)
Closest_Farthest(postID, rest, closestID, minDiff) ==
    IF Len(rest) = 0 THEN closestID
    ELSE LET id == Head(rest)
             diff == abs(postID - id)
         IN IF diff > minDiff
            THEN Closest_Farthest(postID, Tail(rest), id, diff)
            ELSE Closest_Farthest(postID, Tail(rest), closestID, minDiff)

\* getEditablePostID, lines 279-290: the closest of postIDs, first one wins
RECURSIVE Closest(_, _, _, _)
Closest(postID, rest, closestID, minDiff) ==
    IF Len(rest) = 0 THEN closestID
    ELSE LET id == Head(rest)
             diff == abs(postID - id)
         IN IF diff < minDiff
            THEN Closest(postID, Tail(rest), id, diff)
            ELSE Closest(postID, Tail(rest), closestID, minDiff)

getEditablePostID(m, postID) ==
    LET r == ReadDir(m, <<>>)
        postIDs == ScanPostIDs(r.names)
    IN IF ~r.ok THEN [m |-> r, ok |-> FALSE, id |-> 0]
       ELSE IF Len(postIDs) = 0 THEN [m |-> r, ok |-> TRUE, id |-> postID]
       ELSE [m |-> r, ok |-> TRUE,
             id |-> Closest(postID, Tail(postIDs), postIDs[1], abs(postID - postIDs[1]))]

getPostImageNames(m, postID) ==
    LET r == ReadDir(m, <<FormatInt(postID)>>)
    IN IF ~r.ok
       THEN IF r.notExist
            THEN [m |-> [r EXCEPT !.ok = TRUE], ok |-> TRUE, names |-> <<>>]
            ELSE [m |-> r, ok |-> FALSE, names |-> <<>>]
       ELSE [m |-> r, ok |-> TRUE,
             names |-> SortNames({r.names[i] : i \in {j \in 1..Len(r.names) :
                                                       HasPrefix(r.names[j], IMAGE_)}})]

\* mutant: the image names of the caller are kept whatever the unit holds
EditImageNames_CallerOnly(post, imageNames) == post.ImageNames

\* EditPost, lines 118-133: the image names the rewritten front matter lists
EditImageNames(post, imageNames) ==
    IF Len(imageNames) > 0
    THEN IF Len(post.ImageNames) > 0
         THEN LET parts == Split(post.ImageNames[1], DOT)
                  format == IF Len(parts) > 1 THEN parts[Len(parts)] ELSE JPG
              IN [i \in 1..Len(imageNames) |-> ImageName(i - 1, format)]
         ELSE imageNames
    ELSE post.ImageNames

\* mutant: the offset is taken the other way round
EditMedia_SwappedOffset(m, originalPostID, editablePostID, mediaFile) ==
    IF Len(mediaFile) = 0 THEN Result(m, "", editablePostID, <<>>)
    ELSE LET index == editablePostID - originalPostID
             format == getImageFormat(mediaFile[1])
             imagePath == <<FormatInt(editablePostID), ImageName(index, format)>>
             d == MkdirAll(m, <<FormatInt(editablePostID)>>)
         IN IF ~d.ok THEN Result(d, "failed to create post directory", editablePostID, <<>>)
            ELSE LET w == WriteFile(d, imagePath, mediaFile[1])
                 IN IF ~w.ok
                    THEN Result(w, "failed to write image file", editablePostID, <<>>)
                    ELSE LET a == Add(w, imagePath)
                         IN IF ~a.ok
                            THEN Result(a, "failed to add image file to git",
                                        editablePostID, <<>>)
                            ELSE Result(a, "", editablePostID, <<>>)

\* mutant: the new media file goes to the directory of the requested id
EditMedia_RequestedDir(m, originalPostID, editablePostID, mediaFile) ==
    IF Len(mediaFile) = 0 THEN Result(m, "", editablePostID, <<>>)
    ELSE LET index == originalPostID - editablePostID
             format == getImageFormat(mediaFile[1])
             imagePath == <<FormatInt(originalPostID), ImageName(index, format)>>
             Staged(a) ==
                 Result(a, IF a.ok THEN "" ELSE "failed to add image file to git",
                        editablePostID, <<>>)
             Written(w) ==
                 IF ~w.ok THEN Result(w, "failed to write image file", editablePostID, <<>>)
                 ELSE Staged(Add(w, imagePath))
             Made(d) ==
                 IF ~d.ok
                 THEN Result(d, "failed to create post directory", editablePostID, <<>>)
                 ELSE Written(WriteFile(d, imagePath, mediaFile[1]))
         IN Made(MkdirAll(m, <<FormatInt(originalPostID)>>))

\* mutant: the new media file is always given the index 0
EditMedia_IndexZero(m, originalPostID, editablePostID, mediaFile) ==
    IF Len(mediaFile) = 0 THEN Result(m, "", editablePostID, <<>>)
    ELSE LET format == getImageFormat(mediaFile[1])
             imagePath == <<FormatInt(editablePostID), ImageName(0, format)>>
             Staged(a) ==
                 Result(a, IF a.ok THEN "" ELSE "failed to add image file to git",
                        editablePostID, <<>>)
             Written(w) ==
                 IF ~w.ok THEN Result(w, "failed to write image file", editablePostID, <<>>)
                 ELSE Staged(Add(w, imagePath))
             Made(d) ==
                 IF ~d.ok
                 THEN Result(d, "failed to create post directory", editablePostID, <<>>)
                 ELSE Written(WriteFile(d, imagePath, mediaFile[1]))
         IN Made(MkdirAll(m, <<FormatInt(editablePostID)>>))

\* mutant: the new media file is committed and published at once
EditMedia_AutoCommit(m, originalPostID, editablePostID, mediaFile) ==
    IF Len(mediaFile) = 0 THEN Result(m, "", editablePostID, <<>>)
    ELSE LET index == originalPostID - editablePostID
             format == getImageFormat(mediaFile[1])
             imagePath == <<FormatInt(editablePostID), ImageName(index, format)>>
             d == MkdirAll(m, <<FormatInt(editablePostID)>>)
         IN IF ~d.ok THEN Result(d, "failed to create post directory", editablePostID, <<>>)
            ELSE LET w == WriteFile(d, imagePath, mediaFile[1])
                 IN IF ~w.ok
                    THEN Result(w, "failed to write image file", editablePostID, <<>>)
                    ELSE LET a == Add(w, imagePath)
                         IN IF ~a.ok
                            THEN Result(a, "failed to add image file to git",
                                        editablePostID, <<>>)
                            ELSE Result(CommitAndPush(a, imagePath[2]), "",
                                        editablePostID, <<>>)

\* EditPost, lines 169-188: mediaFile is <<>> (nil) or <<buffer>>
EditMedia(m, originalPostID, editablePostID, mediaFile) ==
    IF Len(mediaFile) = 0 THEN Result(m, "", editablePostID, <<>>)
    ELSE LET index == originalPostID - editablePostID
             format == getImageFormat(mediaFile[1])
             imagePath == <<FormatInt(editablePostID), ImageName(index, format)>>
             d == MkdirAll(m, <<FormatInt(editablePostID)>>)
         IN IF ~d.ok THEN Result(d, "failed to create post directory", editablePostID, <<>>)
            ELSE LET w == WriteFile(d, imagePath, mediaFile[1])
                 IN IF ~w.ok
                    THEN Result(w, "failed to write image file", editablePostID, <<>>)
                    ELSE LET a == Add(w, imagePath)
                         IN IF ~a.ok
                            THEN Result(a, "failed to add image file to git",
                                        editablePostID, <<>>)
                            ELSE Result(a, "", editablePostID, <<>>)

\* each step of the body is an operator of the value the step before it returned
EditPost(m, post0, mediaFile) ==
    LET originalPostID == post0.ID
        \* lines 118-188, once the editable unit and its image names are known
        Rewrite(n, editablePostID) ==
            LET numOfMediaFiles == Len(n.names)
                post == [post0 EXCEPT !.ID = editablePostID,
                                      !.ImageNames = EditImageNames(post0, n.names)]
                idStr == FormatInt(editablePostID)
                filename == IF numOfMediaFiles > 0 THEN <<idStr, INDEX_MD>>
                            ELSE <<idStr \o MD>>
                Staged(a) ==
                    IF ~a.ok
                    THEN Result(a, "failed to add post file to git", editablePostID, <<>>)
                    ELSE EditMedia(a, originalPostID, editablePostID, mediaFile)
                Written(w) ==
                    IF ~w.ok
                    THEN Result(w, "failed to write post file", editablePostID, <<>>)
                    ELSE Staged(Add(w, filename))
                Made(d) ==
                    IF ~d.ok
                    THEN Result(d, "failed to create post directory", editablePostID, <<>>)
                    ELSE Written(WriteFile(d, filename, PostFile(post)))
            IN IF post0.Content = <<>>
               THEN EditMedia(n.m, originalPostID, editablePostID, mediaFile)
               ELSE Made(IF numOfMediaFiles > 0 THEN MkdirAll(n.m, <<idStr>>) ELSE n.m)
        Named(n, editablePostID) ==
            IF ~n.ok
            THEN Result(n.m, "failed to get post image names", editablePostID, <<>>)
            ELSE Rewrite(n, editablePostID)
        Found(e) ==
            IF ~e.ok THEN Result(e.m, "failed to find editable post", 0, <<>>)
            ELSE Named(getPostImageNames(e.m, e.id), e.id)
    IN Found(getEditablePostID(m, post0.ID))

\* DeletePost, lines 222-224
RECURSIVE RemoveImages(_, _, _)
RemoveImages(m, relPostDir, imageNames) ==
    IF Len(imageNames) = 0 THEN m
    ELSE RemoveImages(GitRemove(m, <<relPostDir, Head(imageNames)>>), relPostDir,
                      Tail(imageNames))

\* mutant: a failed stage-removal of the markup file ends the unit's removal
DeleteDirectoryUnit_RemoveFatal(m, postID, imageNames) ==
    LET Unstaged(g) ==
            IF ~g.ok THEN [m |-> g, err |-> "failed to remove post file from git"]
            ELSE [m |-> RemoveImages(g, FormatInt(postID), imageNames), err |-> ""]
        Removed(r) ==
            IF ~r.ok THEN [m |-> r, err |-> "failed to remove post directory"]
            ELSE Unstaged(GitRemove(r, <<FormatInt(postID), INDEX_MD>>))
    IN Removed(RemoveAll(m, <<FormatInt(postID)>>))

\* DeletePost, lines 213-224: a unit with media
DeleteDirectoryUnit(m, postID, imageNames) ==
    LET r == RemoveAll(m, <<FormatInt(postID)>>)
    IN IF ~r.ok THEN [m |-> r, err |-> "failed to remove post directory"]
       ELSE [m |-> RemoveImages(GitRemove(r, <<FormatInt(postID), INDEX_MD>>),
                                FormatInt(postID), imageNames),
             err |-> ""]

\* mutant: a failed removal of the loose file aborts the batch
DeleteLooseUnit_RemoveFatal(m, postID) ==
    LET filename == <<FormatInt(postID) \o MD>>
        r == Remove(m, filename)
    IN IF ~r.ok THEN [m |-> r, err |-> "failed to remove post file"]
       ELSE [m |-> GitRemove(r, filename), err |-> ""]

\* DeletePost, lines 225-232: a unit without media; both errors are dropped
DeleteLooseUnit(m, postID) ==
    LET filename == <<FormatInt(postID) \o MD>>
    IN [m |-> GitRemove(Remove(m, filename), filename), err |-> ""]

\* mutant: an entry that is no integer is skipped like an empty one
DeleteEntry_SkipMalformed(m, entry) ==
    LET idStr == TrimSpace(entry)
        parsed == ParseInt(idStr)
        postID == parsed.val
        Removed(u) == [m |-> u.m, err |-> u.err, skip |-> FALSE, postID |-> postID]
        Named(n) ==
            IF ~n.ok THEN [m |-> n.m, err |-> "", skip |-> TRUE, postID |-> postID]
            ELSE Removed(IF Len(n.names) > 0
                         THEN DeleteDirectoryUnit(n.m, postID, n.names)
                         ELSE DeleteLooseUnit(n.m, postID))
    IN IF idStr = <<>> \/ ~parsed.ok
       THEN [m |-> m, err |-> "", skip |-> TRUE, postID |-> 0]
       ELSE Named(getPostImageNames(m, postID))

\* DeletePost, lines 198-232: one entry of the batch.  skip: the entry was
\* empty or its directory unreadable (continue); err: the batch is aborted
DeleteEntry(m, entry) ==
    LET idStr == TrimSpace(entry)
        parsed == ParseInt(idStr)
        postID == parsed.val
        Removed(u) == [m |-> u.m, err |-> u.err, skip |-> FALSE, postID |-> postID]
        Named(n) ==
            IF ~n.ok THEN [m |-> n.m, err |-> "", skip |-> TRUE, postID |-> postID]
            ELSE Removed(IF Len(n.names) > 0
                         THEN DeleteDirectoryUnit(n.m, postID, n.names)
                         ELSE DeleteLooseUnit(n.m, postID))
    IN IF idStr = <<>> THEN [m |-> m, err |-> "", skip |-> TRUE, postID |-> 0]
       ELSE IF ~parsed.ok
            THEN [m |-> m, err |-> "invalid post ID", skip |-> TRUE, postID |-> 0]
       ELSE Named(getPostImageNames(m, postID))

\* DeletePost, lines 197-233: the loop; done lists the identifiers whose
\* iteration ran to its end
RECURSIVE DeleteLoop(_, _, _, _)
DeleteLoop(m, idList, i, done) ==
    IF i > Len(idList) THEN [m |-> m, err |-> "", done |-> done]
    ELSE LET Iterated(e) ==
                 IF e.err # "" THEN [m |-> e.m, err |-> e.err, done |-> done]
                 ELSE DeleteLoop(e.m, idList, i + 1,
                                 IF e.skip THEN done ELSE Append(done, e.postID))
         IN Iterated(DeleteEntry(m, idList[i]))

\* mutant: the result of the commit is dropped
DeletePost_IgnoreCommitError(m, ids) ==
    LET Looped(l) ==
            IF l.err # "" THEN Result(l.m, l.err, 0, l.done)
            ELSE Result(CommitAndPush(l.m, ids), "", 0, l.done)
    IN Looped(DeleteLoop(m, Split(ids, ","), 1, <<>>))

DeletePost(m, ids) ==
    LET Committed(c, done) ==
            IF ~c.ok THEN Result(c, "failed to commit and push deletion", 0, done)
            ELSE Result(c, "", 0, done)
        Looped(l) ==
            IF l.err # "" THEN Result(l.m, l.err, 0, l.done)
            ELSE Committed(CommitAndPush(l.m, ids), l.done)
    IN Looped(DeleteLoop(m, Split(ids, ","), 1, <<>>))

-----------------------------------------------------------------------------
(* Inputs *)

JPEGBytes == <<255, 216, 255, 224>>
PNGBytes == <<137, 80, 78, 71, 13, 10, 26, 10>>

Buffers == {JPEGBytes, PNGBytes}

SeqsUpTo(S, n) == UNION {[1..k -> S] : k \in 0..n}

MediaLists == SeqsUpTo(Buffers, MaxMedia)

\* the entries of a delete batch: identifiers, one with blanks around it,
\* an empty entry and one that is no integer
BatchEntries ==
    {FormatInt(i) : i \in IDs} \cup {<<" ", "9", " ">>, <<>>, <<"x">>}

RECURSIVE Join(_, _)
Join(parts, sep) ==
    IF Len(parts) = 0 THEN <<>>
    ELSE IF Len(parts) = 1 THEN parts[1]
    ELSE parts[1] \o <<sep>> \o Join(Tail(parts), sep)

Batches == {Join(b, ",") : b \in SeqsUpTo(BatchEntries, MaxBatch) \ {<<>>}}

\* a caller-supplied image name list that hints at a format
Hint == <<<<"x", ".", "p", "n", "g">>>>

EditPosts ==
    {[ID |-> i, Title |-> <<>>, Content |-> c[1], ImageNames |-> c[2]] :
        i \in IDs, c \in {<<<<>>, <<>>>>, <<<<"c">>, <<>>>>, <<<<"c">>, Hint>>}}

CreatePosts ==
    {[ID |-> i, Title |-> <<>>, Content |-> <<"c">>, ImageNames |-> <<>>] : i \in IDs}

\* one external failure: the n-th call of one kind fails
Faults == {[call |-> k, n |-> n] : k \in Kinds, n \in 1..(MaxMedia + 1)}

-----------------------------------------------------------------------------
(* Initial states: the repository as cloned.  The posts directory is absent, *)
(* or holds the section index, a page that is no post, and for each          *)
(* identifier no unit, a loose file or a directory with one image, all       *)
(* committed.                                                                *)

SECTION_INDEX == <<"_">> \o INDEX_MD
ABOUT_MD == <<"a">> \o MD

IMAGE_0_JPG == IMAGE_ \o <<"0", ".">> \o JPG

OldPost == [Title |-> CHANNEL, ImageNames |-> <<>>, Content |-> <<"o", "l", "d">>]

\* the bytes of an image committed earlier, those of no buffer of a later call
OldJPEGBytes == <<255, 216, 255, 219>>

UnitFiles(i, shape) ==
    CASE shape = "none" -> {}
      [] shape = "file" -> {<<<<FormatInt(i) \o MD>>, OldPost>>}
      [] shape = "dir" ->
            {<<<<FormatInt(i), INDEX_MD>>,
               [OldPost EXCEPT !.ImageNames = <<IMAGE_0_JPG>>]>>,
             <<<<FormatInt(i), IMAGE_0_JPG>>, OldJPEGBytes>>}

StoreOf(shapes) ==
    LET pairs == {<<<<SECTION_INDEX>>, OldPost>>, <<<<ABOUT_MD>>, OldPost>>}
                 \cup UNION {UnitFiles(i, shapes[i]) : i \in IDs}
    IN [exists |-> TRUE,
        dirs |-> {FormatInt(i) : i \in {j \in IDs : shapes[j] = "dir"}},
        files |-> [q \in {pr[1] : pr \in pairs} |->
                      (CHOOSE pr \in pairs : pr[1] = q)[2]]]

InitStores ==
    {[exists |-> FALSE, dirs |-> {}, files |-> EmptyMap]}
    \cup {StoreOf(sh) : sh \in [IDs -> {"none", "file", "dir"}]}

NoOp ==
    [op |-> "none",
     post |-> [ID |-> 0, Title |-> <<>>, Content |-> <<>>, ImageNames |-> <<>>],
     media |-> <<>>, ids |-> <<>>, fault |-> NoFault, err |-> "", calls |-> <<>>,
     cnt |-> [k \in Kinds |-> 0], editablePostID |-> 0, done |-> <<>>]

Init ==
    /\ fs \in InitStores
    /\ git = [index |-> fs.files, head |-> fs.files, commits |-> <<>>]
    /\ pre = [fs |-> fs, git |-> git]
    /\ last = NoOp
    /\ hist = <<>>
    /\ ops = 0
    /\ input = <<>>
    /\ output = <<>>

-----------------------------------------------------------------------------
(* The two physical shapes of a post unit *)

LooseFile(i) == <<FormatInt(i) \o MD>>

HasLooseFile(f, i) == IsFile(f, LooseFile(i))

HasDirectory(f, i) == IsDir(f, <<FormatInt(i)>>)

HasUnit(f, i) == HasLooseFile(f, i) \/ HasDirectory(f, i)

-----------------------------------------------------------------------------
(* Operations *)

Return(op, post, media, ids, fault, r) ==
    /\ fs' = r.fs
    /\ git' = r.git
    /\ pre' = [fs |-> fs, git |-> git]
    /\ last' = [op |-> op, post |-> post, media |-> media, ids |-> ids,
                fault |-> fault, err |-> r.err, calls |-> r.calls, cnt |-> r.cnt,
                editablePostID |-> r.editablePostID, done |-> r.done]
    /\ hist' = Append(hist, [op |-> op, ok |-> r.err = "",
                             fresh |-> ~HasUnit(fs, post.ID),
                             media |-> Len(media),
                             names |-> Len(post.ImageNames)])
    /\ ops' = ops + 1
    /\ UNCHANGED <<input, output>>

DoCreatePost(fault) ==
    \E post \in CreatePosts, mediaFiles \in MediaLists :
        Return("CreatePost", post, mediaFiles, <<>>, fault,
               CreatePost(Run(fs, git, fault), post, mediaFiles))

DoEditPost(fault) ==
    \E post \in EditPosts, mediaFile \in SeqsUpTo(Buffers, 1) :
        Return("EditPost", post, mediaFile, <<>>, fault,
               EditPost(Run(fs, git, fault), post, mediaFile))

DoDeletePost(fault) ==
    \E ids \in Batches :
        Return("DeletePost", NoOp.post, <<>>, ids, fault,
               DeletePost(Run(fs, git, fault), ids))

\* the collaborators and the file system fail only for reasons the stores show
CreatePostCall == ops < MaxOps /\ DoCreatePost(NoFault)
EditPostCall == ops < MaxOps /\ DoEditPost(NoFault)
DeletePostCall == ops < MaxOps /\ DoDeletePost(NoFault)

Next == CreatePostCall \/ EditPostCall \/ DeletePostCall

Spec == Init /\ [][Next]_vars

\* one call of a collaborator or of the file system may fail for any reason
CreatePostFaulty == ops < MaxOpsFault /\ \E f \in Faults \cup {NoFault} : DoCreatePost(f)
EditPostFaulty == ops < MaxOpsFault /\ \E f \in Faults \cup {NoFault} : DoEditPost(f)
DeletePostFaulty == ops < MaxOpsFault /\ \E f \in Faults \cup {NoFault} : DoDeletePost(f)

NextFault == CreatePostFaulty \/ EditPostFaulty \/ DeletePostFaulty

SpecFault == Init /\ [][NextFault]_vars

-----------------------------------------------------------------------------
(* The pure functions, each applied to an argument drawn from a bounded set *)

\* no service operation is running
Idle ==
    /\ fs = [exists |-> FALSE, dirs |-> {}, files |-> EmptyMap]
    /\ git = [index |-> EmptyMap, head |-> EmptyMap, commits |-> <<>>]
    /\ pre = [fs |-> fs, git |-> git]
    /\ last = NoOp
    /\ hist = <<>>
    /\ ops = 0

\* the bytes the signatures are made of, and one that is in none
SignatureBytes == {255, 216, 137, 80, 78, 71, 73, 70, 82, 0}

\* what follows the first bytes: nothing, padding up to 5, 6, 8 and 12 bytes,
\* and the RIFF payloads tagged WEBP and WAVE
BufferTails ==
    {<<>>, <<56>>, <<56, 57>>, <<56, 57, 97, 0>>,
     <<0, 0, 0, 0, 87, 69, 66, 80>>, <<0, 0, 0, 0, 87, 65, 86, 69>>}

ImageBuffers == {h \o t : h \in SeqsUpTo(SignatureBytes, MaxHead), t \in BufferTails}

InitFormat == Idle /\ input \in ImageBuffers /\ output = <<>>

CallGetImageFormat ==
    /\ output = <<>>
    /\ output' = <<getImageFormat(input)>>
    /\ UNCHANGED <<fs, git, pre, last, hist, ops, input>>

NextFormat == CallGetImageFormat

SpecFormat == InitFormat /\ [][NextFormat]_vars

\* a content is made of pieces: plain text, an inline code span, a spoiler,
\* a blockquote, or a fenced block with its language and body
Text(t) == [kind |-> "text", language |-> <<>>, body |-> t]
Span(k, t) == [kind |-> k, language |-> <<>>, body |-> t]
Fenced(l, b) == [kind |-> "fence", language |-> l, body |-> b]

Render(piece) ==
    CASE piece.kind = "text" -> piece.body
      [] piece.kind = "code" -> CODE_OPEN \o piece.body \o CODE_CLOSE
      [] piece.kind = "spoiler" -> SPOILER_OPEN \o piece.body \o SPOILER_CLOSE
      [] piece.kind = "quote" -> BLOCKQUOTE_OPEN \o piece.body \o BLOCKQUOTE_CLOSE
      [] piece.kind = "fence" ->
            PRE_OPEN \o piece.language \o QUOTE_GT \o piece.body \o PRE_CLOSE

RECURSIVE RenderAll(_)
RenderAll(pieces) ==
    IF Len(pieces) = 0 THEN <<>> ELSE Render(Head(pieces)) \o RenderAll(Tail(pieces))

GO == <<"g", "o">>
PY == <<"p", "y">>

\* text with a newline, a lone newline, an entity, and text that reads like
\* the placeholder of the first fenced block
TextPieces ==
    {Text(<<"a", "\n", "b">>), Text(NL), Text(LT), Text(Placeholder(0))}

SpanPieces ==
    {Span("code", <<"a", "<", "b">>), Span("spoiler", <<"s">>),
     Span("quote", <<"q", "\n", "r">>)}

\* bodies: lines with a trailing newline run, one word, a spoiler, an inline
\* code span, a blockquote, and the text of the first block's placeholder
FencePieces ==
    {Fenced(GO, <<"x", "\n", "y", "\n", "\n">>),
     Fenced(PY, <<"x">>),
     Fenced(PY, Render(Span("spoiler", <<"s">>))),
     Fenced(GO, Render(Span("code", <<"a", "<", "b">>))),
     Fenced(GO, Render(Span("quote", <<"q", "\n", "r">>))),
     Fenced(PY, Placeholder(0))}

Contents == SeqsUpTo(TextPieces \cup SpanPieces \cup FencePieces, MaxPieces)

\* the orders in which a range over a map of n entries can visit them
Orders(n) == {o \in [1..n -> 1..n] : \A i, j \in 1..n : o[i] = o[j] => i = j}

\* the number of entries of the side table of one invocation
TableSize(content) == Len(ExtractCodeBlocks(EscapeInlineCode(content), 0).blocks)

InitContent == Idle /\ input \in Contents /\ output = <<>>

CallProcessContent ==
    /\ Len(output) < MaxCalls
    /\ \E order \in Orders(TableSize(RenderAll(input))) :
          output' = Append(output, ProcessContent(RenderAll(input), order))
    /\ UNCHANGED <<fs, git, pre, last, hist, ops, input>>

NextContent == CallProcessContent

SpecContent == InitContent /\ [][NextContent]_vars

\* the pieces a content with addresses is made of: two addresses, a word, a
\* space, a newline and the hard line break ProcessContent makes of one
ADDRESS_1 == <<"0", "x", "1">>
ADDRESS_AF == <<"0", "x", "A", "f">>
AddressPieces == {ADDRESS_1, ADDRESS_AF, <<"a">>, <<" ">>, NL, HARD_BREAK}

RECURSIVE Concat(_)
Concat(parts) == IF Len(parts) = 0 THEN <<>> ELSE Head(parts) \o Concat(Tail(parts))

AddressContents == {Concat(p) : p \in SeqsUpTo(AddressPieces, MaxTokens)}

InitAddress == Idle /\ input \in AddressContents /\ output = <<>>

\* the title is extracted from the content, then the pattern is removed
CallExtractTitle ==
    /\ output = <<>>
    /\ output' = <<ExtractTitle(input, CHANNEL)>>
    /\ UNCHANGED <<fs, git, pre, last, hist, ops, input>>

CallRemoveAddressPattern ==
    /\ Len(output) = 1
    /\ output' = Append(output, RemoveAddressPattern(input))
    /\ UNCHANGED <<fs, git, pre, last, hist, ops, input>>

NextAddress == CallExtractTitle \/ CallRemoveAddressPattern

SpecAddress == InitAddress /\ [][NextAddress]_vars

\* the service applied to posts whose content carries addresses, with and
\* without a title of the caller
PostTitles == {<<>>, <<"T">>}

TitledContents ==
    {<<"a">>, <<"a">> \o NL \o ADDRESS_1, ADDRESS_1 \o NL \o ADDRESS_AF}

TitledPosts ==
    {[ID |-> i, Title |-> t, Content |-> c, ImageNames |-> <<>>] :
        i \in IDs, t \in PostTitles, c \in TitledContents}

CreateTitledPost ==
    /\ ops < MaxOpsFault
    /\ \E post \in TitledPosts, mediaFiles \in MediaLists :
          Return("CreatePost", post, mediaFiles, <<>>, NoFault,
                 CreatePost(Run(fs, git, NoFault), post, mediaFiles))

EditTitledPost ==
    /\ ops < MaxOpsFault
    /\ \E post \in TitledPosts, mediaFile \in SeqsUpTo(Buffers, 1) :
          Return("EditPost", post, mediaFile, <<>>, NoFault,
                 EditPost(Run(fs, git, NoFault), post, mediaFile))

NextTitled == CreateTitledPost \/ EditTitledPost

SpecTitled == Init /\ [][NextTitled]_vars

\* the fixed text of the front matter
DELIMITER == <<"+", "+", "+", "\n">>
TITLE_OPEN == <<"t", "i", "t", "l", "e", " ", "=", " ", "\"">>
QUOTE == <<"\"">>
ESCAPED_QUOTE == <<"\\", "\"">>
DATE_ == <<"d", "a", "t", "e", " ", "=", " ">>
EXTRA == <<"[", "e", "x", "t", "r", "a", "]">>
IMAGES_OPEN == <<"i", "m", "a", "g", "e", "s", " ", "=", " ", "[">>
COMMA_SPACE == <<",", " ">>
IMAGES_CLOSE == <<"]", "\n">>

\* a number on at least w digits
Pad(n, w) ==
    LET Padded(d) ==
            IF Len(d) >= w THEN d ELSE [i \in 1..(w - Len(d)) |-> "0"] \o d
    IN Padded(FormatNat(n))

\* time.Format(time.RFC3339): 2006-01-02T15:04:05Z07:00, the zone written Z
\* for UTC and as a signed hh:mm offset otherwise
FormatRFC3339(date) ==
    LET Zone(o) ==
            IF o = 0 THEN <<"Z">>
            ELSE <<IF o < 0 THEN "-" ELSE "+">>
                 \o Pad(abs(o) \div 60, 2) \o <<":">> \o Pad(abs(o) % 60, 2)
    IN Pad(date.year, 4) \o <<"-">> \o Pad(date.month, 2) \o <<"-">>
       \o Pad(date.day, 2) \o <<"T">> \o Pad(date.hour, 2) \o <<":">>
       \o Pad(date.minute, 2) \o <<":">> \o Pad(date.second, 2)
       \o Zone(date.offset)

\* the loop over post.ImageNames
RECURSIVE QuotedNames(_, _)
QuotedNames(imageNames, i) ==
    IF i > Len(imageNames) THEN <<>>
    ELSE (IF i > 1 THEN COMMA_SPACE ELSE <<>>)
         \o QUOTE \o imageNames[i] \o QUOTE \o QuotedNames(imageNames, i + 1)

BuildFrontMatter_AlwaysExtra(post) ==
    DELIMITER \o TITLE_OPEN \o ReplaceAll(post.Title, QUOTE, ESCAPED_QUOTE)
    \o QUOTE \o NL
    \o DATE_ \o FormatRFC3339(post.Date) \o NL \o NL
    \o EXTRA \o NL \o IMAGES_OPEN \o QuotedNames(post.ImageNames, 1)
    \o IMAGES_CLOSE
    \o DELIMITER \o NL

BuildFrontMatter(post) ==
    DELIMITER \o TITLE_OPEN \o ReplaceAll(post.Title, QUOTE, ESCAPED_QUOTE)
    \o QUOTE \o NL
    \o DATE_ \o FormatRFC3339(post.Date) \o NL \o NL
    \o (IF Len(post.ImageNames) > 0
        THEN EXTRA \o NL \o IMAGES_OPEN \o QuotedNames(post.ImageNames, 1)
             \o IMAGES_CLOSE
        ELSE <<>>)
    \o DELIMITER \o NL

\* the dates of the tests, and one in a zone east of UTC
Dates ==
    {[year |-> 2024, month |-> 1, day |-> 15, hour |-> 10, minute |-> 30,
      second |-> 0, offset |-> 0],
     [year |-> 2024, month |-> 2, day |-> 20, hour |-> 15, minute |-> 45,
      second |-> 0, offset |-> 120]}

\* titles: words, double quotes, backslashes and the name of the section
TitlePieces == {<<"a">>, QUOTE, <<"\\">>, EXTRA}
Titles == {Concat(p) : p \in SeqsUpTo(TitlePieces, MaxTitle)}

ImageNameLists ==
    SeqsUpTo({ImageName(0, JPG), ImageName(1, PNG), <<"x", ".", "g", "i", "f">>},
             MaxMedia)

FrontMatterPosts ==
    [Title : Titles, Date : Dates, ImageNames : ImageNameLists]

InitFrontMatter == Idle /\ input \in FrontMatterPosts /\ output = <<>>

CallBuildFrontMatter ==
    /\ output = <<>>
    /\ output' = <<BuildFrontMatter(input)>>
    /\ UNCHANGED <<fs, git, pre, last, hist, ops, input>>

NextFrontMatter == CallBuildFrontMatter

SpecFrontMatter == InitFrontMatter /\ [][NextFrontMatter]_vars

-----------------------------------------------------------------------------
(* telegram.Client: every operation hands its request, a struct value, to   *)
(* makeRequest as an interface value; the Validate methods are declared on  *)
(* the pointer types.                                                        *)

\* strategy.MaxAttempts
MaxAttempts == 3

\* validator.NotBlank
NotBlank(s) == TrimSpace(s) # <<>>

\* validator.MaxChars
MaxChars(s, n) == Len(s) <= n

ParseModes == {"HTML", "Markdown", "MarkdownV2"}

\* the Validate method of each request type that declares one: TRUE when the
\* validator ends up valid
Validate(type, r) ==
    CASE type = "SendMessageRequest" ->
            /\ NotBlank(r.ChatID)
            /\ NotBlank(r.Text)
            /\ MaxChars(r.Text, 4096)
            /\ (r.ParseMode # "" => r.ParseMode \in ParseModes)
      [] type = "EditMessageTextRequest" ->
            /\ (NotBlank(r.ChatID) \/ NotBlank(r.InlineMessageID))
            /\ NotBlank(r.Text)
            /\ MaxChars(r.Text, 4096)
            /\ (r.ParseMode # "" => r.ParseMode \in ParseModes)
            /\ ~(r.MessageID = 0 /\ r.InlineMessageID = <<>>)
      [] type = "EditMessageCaptionRequest" ->
            /\ (NotBlank(r.ChatID) \/ NotBlank(r.InlineMessageID))
            /\ (r.ParseMode # "" => r.ParseMode \in ParseModes)
            /\ ~(r.MessageID = 0 /\ r.InlineMessageID = <<>>)
      [] type = "DeleteMessageRequest" ->
            NotBlank(r.ChatID) /\ r.MessageID > 0
      [] type = "ForwardMessageRequest" ->
            NotBlank(r.ChatID) /\ NotBlank(r.FromChatID) /\ r.MessageID > 0
      [] type = "CopyMessageRequest" ->
            /\ NotBlank(r.ChatID) /\ NotBlank(r.FromChatID) /\ r.MessageID > 0
            /\ (r.ParseMode # "" => r.ParseMode \in ParseModes)
      [] type = "PinChatMessageRequest" ->
            NotBlank(r.ChatID) /\ r.MessageID > 0
      [] type = "UnpinChatMessageRequest" -> NotBlank(r.ChatID)
      [] type = "UnpinAllChatMessagesRequest" -> NotBlank(r.ChatID)

\* the request types with a Validate method; EditMessageMediaRequest has none
ValidatableTypes ==
    {"SendMessageRequest", "EditMessageTextRequest", "EditMessageCaptionRequest",
     "DeleteMessageRequest", "ForwardMessageRequest", "CopyMessageRequest",
     "PinChatMessageRequest", "UnpinChatMessageRequest",
     "UnpinAllChatMessagesRequest"}

\* the interface value a struct of the type is boxed into when it is passed
\* by value: its dynamic type is T, not *T
Value(type, r) == [type |-> type, pointer |-> FALSE, struct |-> r]

\* req.(validator.Validatable): every Validate has a pointer receiver, so the
\* method is in the method set of *T and not in that of T
IsValidatable(payload) == payload.pointer /\ payload.type \in ValidatableTypes

validateRequest(payload) ==
    IF IsValidatable(payload) /\ ~Validate(payload.type, payload.struct)
    THEN "validation failed"
    ELSE ""

\* what one PostJSON can come to: no response, an API error, a success
\* without result, a success with one
NETWORK_ERROR == [received |-> FALSE, OK |-> FALSE, Result |-> "nil"]
Responses ==
    {NETWORK_ERROR,
     [received |-> TRUE, OK |-> FALSE, Result |-> "nil"],
     [received |-> TRUE, OK |-> TRUE, Result |-> "nil"],
     [received |-> TRUE, OK |-> TRUE, Result |-> "value"]}

\* retry.Do around PostJSON: attempt n gets responses[n]; a network error is
\* retried up to MaxAttempts, an API error is not
RECURSIVE Attempts(_, _, _, _)
Attempts(method, payload, responses, n) ==
    LET Rest(r) == [r EXCEPT !.sent = <<[method |-> method, payload |-> payload]>> \o @]
    IN IF responses[n].received
       THEN [sent |-> <<[method |-> method, payload |-> payload]>>,
             resp |-> responses[n],
             err |-> IF responses[n].OK THEN "" ELSE "telegram api request failed"]
       ELSE IF n = MaxAttempts
       THEN [sent |-> <<[method |-> method, payload |-> payload]>>,
             resp |-> responses[n], err |-> "telegram api request failed"]
       ELSE Rest(Attempts(method, payload, responses, n + 1))

makeRequest(method, payload, responses) ==
    IF validateRequest(payload) # ""
    THEN [sent |-> <<>>, resp |-> NETWORK_ERROR, err |-> validateRequest(payload)]
    ELSE Attempts(method, payload, responses, 1)

\* parseMessageResult after makeRequest
MessageResult(r) ==
    IF r.err # "" THEN [sent |-> r.sent, value |-> "nil", err |-> r.err]
    ELSE IF r.resp.Result = "nil"
    THEN [sent |-> r.sent, value |-> "nil", err |-> "result is nil"]
    ELSE [sent |-> r.sent, value |-> "message", err |-> ""]

\* resp.OK after makeRequest
BoolResult(r) ==
    IF r.err # "" THEN [sent |-> r.sent, value |-> FALSE, err |-> r.err]
    ELSE [sent |-> r.sent, value |-> r.resp.OK, err |-> ""]

SendMessage(req, responses) ==
    MessageResult(makeRequest("sendMessage", Value("SendMessageRequest", req), responses))

EditMessageText(req, responses) ==
    MessageResult(makeRequest("editMessageText", Value("EditMessageTextRequest", req),
                              responses))

EditMessageCaption(req, responses) ==
    MessageResult(makeRequest("editMessageCaption",
                              Value("EditMessageCaptionRequest", req), responses))

EditMessageMedia(req, responses) ==
    MessageResult(makeRequest("editMessageMedia", Value("EditMessageMediaRequest", req),
                              responses))

DeleteMessage(req, responses) ==
    LET Deleted(r) ==
            IF r.err # "" THEN [sent |-> r.sent, value |-> FALSE, err |-> r.err]
            ELSE IF r.resp.Result = "nil"
            THEN [sent |-> r.sent, value |-> r.resp.OK, err |-> ""]
            ELSE [sent |-> r.sent, value |-> TRUE, err |-> ""]
    IN Deleted(makeRequest("deleteMessage", Value("DeleteMessageRequest", req), responses))

ForwardMessage(req, responses) ==
    MessageResult(makeRequest("forwardMessage", Value("ForwardMessageRequest", req),
                              responses))

CopyMessage(req, responses) ==
    MessageResult(makeRequest("copyMessage", Value("CopyMessageRequest", req), responses))

PinChatMessage(req, responses) ==
    BoolResult(makeRequest("pinChatMessage", Value("PinChatMessageRequest", req),
                           responses))

UnpinChatMessage(req, responses) ==
    BoolResult(makeRequest("unpinChatMessage", Value("UnpinChatMessageRequest", req),
                           responses))

UnpinAllChatMessages(req, responses) ==
    BoolResult(makeRequest("unpinAllChatMessages",
                           Value("UnpinAllChatMessagesRequest", req), responses))

\* the requests: a chat that is missing, blank or named; a text that is
\* missing or present; a parse mode that is unset, permitted or not; a message
\* id that is unset or set
ChatIDs == {<<>>, <<" ">>, CHANNEL}
Texts == {<<>>, <<"h", "i">>}
MessageIDs == {0, 1}

Requests ==
    [type : {"SendMessageRequest"}, ChatID : ChatIDs, Text : Texts,
     ParseMode : {"", "HTML", "XML"}]
    \cup [type : {"EditMessageTextRequest"}, ChatID : ChatIDs, MessageID : MessageIDs,
          Text : Texts, ParseMode : {""}, InlineMessageID : {<<>>, <<"i">>}]
    \cup [type : {"EditMessageCaptionRequest"}, ChatID : ChatIDs,
          MessageID : MessageIDs, ParseMode : {"", "XML"}, InlineMessageID : {<<>>}]
    \cup [type : {"EditMessageMediaRequest"}, ChatID : ChatIDs, MessageID : MessageIDs]
    \cup [type : {"DeleteMessageRequest", "PinChatMessageRequest",
                  "UnpinChatMessageRequest"},
          ChatID : ChatIDs, MessageID : MessageIDs]
    \cup [type : {"ForwardMessageRequest"}, ChatID : ChatIDs, FromChatID : ChatIDs,
          MessageID : MessageIDs]
    \cup [type : {"CopyMessageRequest"}, ChatID : ChatIDs, FromChatID : ChatIDs,
          MessageID : MessageIDs, ParseMode : {""}]
    \cup [type : {"UnpinAllChatMessagesRequest"}, ChatID : ChatIDs]

\* the operation that takes a request of the type of req
Operation(req, responses) ==
    CASE req.type = "SendMessageRequest" -> SendMessage(req, responses)
      [] req.type = "EditMessageTextRequest" -> EditMessageText(req, responses)
      [] req.type = "EditMessageCaptionRequest" -> EditMessageCaption(req, responses)
      [] req.type = "EditMessageMediaRequest" -> EditMessageMedia(req, responses)
      [] req.type = "DeleteMessageRequest" -> DeleteMessage(req, responses)
      [] req.type = "ForwardMessageRequest" -> ForwardMessage(req, responses)
      [] req.type = "CopyMessageRequest" -> CopyMessage(req, responses)
      [] req.type = "PinChatMessageRequest" -> PinChatMessage(req, responses)
      [] req.type = "UnpinChatMessageRequest" -> UnpinChatMessage(req, responses)
      [] req.type = "UnpinAllChatMessagesRequest" -> UnpinAllChatMessages(req, responses)

InitTelegram == Idle /\ input \in Requests /\ output = <<>>

CallOperation ==
    /\ output = <<>>
    /\ \E responses \in [1..MaxAttempts -> Responses] :
          output' = <<Operation(input, responses)>>
    /\ UNCHANGED <<fs, git, pre, last, hist, ops, input>>

NextTelegram == CallOperation

SpecTelegram == InitTelegram /\ [][NextTelegram]_vars

-----------------------------------------------------------------------------
(* Properties *)

Succeeded == last.err = ""

AllSucceeded == \A k \in 1..Len(hist) : hist[k].ok

\* the identifiers that have a unit on disk, read off the two shapes
OnDiskIDs(f) == {i \in IDs : HasUnit(f, i)}

\* the name the specification gives media file number i of a unit
ExpectedImage(i, buffer) ==
    <<"i", "m", "a", "g", "e", "_">> \o FormatInt(i) \o <<".">> \o getImageFormat(buffer)

\* C1: after any sequence of successful CreatePost, EditPost and DeletePost
\* calls, no identifier has both the loose file <i>.md and the directory <i>/.
C1_OneShapePerID ==
    AllSucceeded => \A i \in IDs : ~(HasLooseFile(fs, i) /\ HasDirectory(fs, i))

\* C2: a successful CreatePost on an identifier without a unit leaves, with no
\* media, exactly the loose file and no directory; with k >= 1 media, the
\* directory holding index.md and exactly the k files image_0..image_{k-1},
\* image_i with the extension of and the bytes of media[i], and no loose file.
C2_CreateShape ==
    (last.op = "CreatePost" /\ Succeeded /\ ~HasUnit(pre.fs, last.post.ID)) =>
        LET id == last.post.ID
            k == Len(last.media)
            images == {ExpectedImage(i, last.media[i + 1]) : i \in 0..(k - 1)}
        IN IF k = 0
           THEN HasLooseFile(fs, id) /\ ~HasDirectory(fs, id)
           ELSE /\ HasDirectory(fs, id)
                /\ ~HasLooseFile(fs, id)
                /\ DirNames(fs, FormatInt(id)) = {INDEX_MD} \cup images
                /\ Cardinality(images) = k
                /\ \A i \in 0..(k - 1) :
                      fs.files[<<FormatInt(id), ExpectedImage(i, last.media[i + 1])>>]
                          = last.media[i + 1]

C2_Witness ==
    /\ last.op = "CreatePost" /\ Succeeded /\ ~HasUnit(pre.fs, last.post.ID)
    /\ Len(last.media) = 2
    /\ last.media[1] # last.media[2]
    /\ Cardinality(DirNames(fs, FormatInt(last.post.ID))) = 3

\* C3: when some identifier is on disk, getEditablePostID(r) returns an
\* identifier that is on disk and is at least as close to r as every
\* identifier on disk; the section index and the page whose name starts with
\* no integer contribute no identifier.
C3_ClosestOnDisk ==
    (/\ last.op = "EditPost"
     /\ last.err # "failed to find editable post"
     /\ OnDiskIDs(pre.fs) # {}) =>
        /\ last.editablePostID \in OnDiskIDs(pre.fs)
        /\ \A x \in OnDiskIDs(pre.fs) :
              abs(last.post.ID - last.editablePostID) <= abs(last.post.ID - x)

C3_Witness ==
    /\ last.op = "EditPost"
    /\ last.err # "failed to find editable post"
    /\ Cardinality(OnDiskIDs(pre.fs)) >= 2
    /\ last.editablePostID # last.post.ID
    /\ {<<SECTION_INDEX>>, <<ABOUT_MD>>} \subseteq DOMAIN pre.fs.files

\* C4: EditPost with a media buffer and a requested id r that resolves to an
\* existing unit e writes the buffer to <e>/image_<r-e>.<ext>, ext the format
\* of the buffer, and stages that path, with or without content in the call.
C4_EditMediaPath ==
    (/\ last.op = "EditPost"
     /\ Len(last.media) = 1
     /\ HasUnit(pre.fs, last.editablePostID)) =>
        LET e == last.editablePostID
            path == <<FormatInt(e), ExpectedImage(last.post.ID - e, last.media[1])>>
        IN /\ Succeeded
           /\ IsFile(fs, path)
           /\ fs.files[path] = last.media[1]
           /\ last.calls[Len(last.calls)] = <<"Add", path>>
           /\ path \in DOMAIN git.index
           /\ git.index[path] = last.media[1]

C4_Witness ==
    /\ last.op = "EditPost" /\ Succeeded
    /\ Len(last.media) = 1
    /\ last.post.Content # <<>>
    /\ HasUnit(pre.fs, last.editablePostID)
    /\ last.post.ID - last.editablePostID = 2
    /\ IsFile(fs, <<FormatInt(last.editablePostID), ExpectedImage(2, last.media[1])>>)

\* the media files of unit directory d and the index each one carries
ImagesOf(f, d) == {n \in DirNames(f, d) : HasPrefix(n, IMAGE_)}

ImageIndex(name) == ParseInt(Split(SubSeq(name, Len(IMAGE_) + 1, Len(name)), ".")[1]).val

DenseZeroBased(f, d) ==
    {ImageIndex(n) : n \in ImagesOf(f, d)} = 0..(Cardinality(ImagesOf(f, d)) - 1)

\* C5 as stated: after any sequence of successful CreatePost and EditPost
\* calls, the image indices of every unit directory are exactly 0..k-1.
C5_DenseIndices ==
    (\A k \in 1..Len(hist) : hist[k].ok /\ hist[k].op \in {"CreatePost", "EditPost"}) =>
        \A d \in fs.dirs : DenseZeroBased(fs, d)

\* C5 amended: after any sequence of successful CreatePost calls, each for an
\* identifier that has no unit yet, and successful EditPost calls without a
\* media buffer, the image indices of every unit directory are exactly 0..k-1.
C5_DenseWithoutEditMedia ==
    (\A k \in 1..Len(hist) :
        /\ hist[k].ok
        /\ \/ hist[k].op = "CreatePost" /\ hist[k].fresh
           \/ hist[k].op = "EditPost" /\ hist[k].media = 0) =>
        \A d \in fs.dirs : DenseZeroBased(fs, d)

C5_Witness ==
    /\ Len(hist) = 2
    /\ hist[1] = [op |-> "CreatePost", ok |-> TRUE, fresh |-> TRUE, media |-> 2,
                  names |-> 0]
    /\ hist[2] = [op |-> "EditPost", ok |-> TRUE, fresh |-> FALSE, media |-> 0,
                  names |-> 0]
    /\ last.post.Content # <<>>
    /\ Cardinality(ImagesOf(fs, FormatInt(last.editablePostID))) = 2

\* C6: after DeletePost has processed a well-formed identifier without a fatal
\* error, neither its loose file nor its directory is left on disk.
C6_DeletedUnitGone ==
    last.op = "DeletePost" =>
        \A k \in 1..Len(last.done) : ~HasUnit(fs, last.done[k])

\* the entries of the last batch, and the batch without entry k
BatchOf(ids) == Split(ids, ",")

WithoutEntry(ids, k) ==
    Join(SubSeq(BatchOf(ids), 1, k - 1) \o SubSeq(BatchOf(ids), k + 1, Len(BatchOf(ids))),
         ",")

WellFormed(entry) == TrimSpace(entry) # <<>> /\ ParseInt(TrimSpace(entry)).ok

Malformed(entry) == TrimSpace(entry) # <<>> /\ ~ParseInt(TrimSpace(entry)).ok

EntryID(entry) == ParseInt(TrimSpace(entry)).val

\* C7: an identifier of a delete batch that has no unit on disk changes
\* nothing: DeletePost leaves the disk, removes the other units and returns
\* exactly as it does for the batch without that entry, and the identifier
\* still has no unit.
C7_MissingUnitIsNoOp ==
    last.op = "DeletePost" =>
        \A k \in 1..Len(BatchOf(last.ids)) :
            (/\ WellFormed(BatchOf(last.ids)[k])
             /\ ~HasUnit(pre.fs, EntryID(BatchOf(last.ids)[k]))) =>
                LET other == DeletePost(Run(pre.fs, pre.git, NoFault),
                                        WithoutEntry(last.ids, k))
                IN /\ fs = other.fs
                   /\ last.err = other.err
                   /\ {last.done[j] : j \in 1..Len(last.done)}
                        \ {EntryID(BatchOf(last.ids)[k])}
                        = {other.done[j] : j \in 1..Len(other.done)}
                        \ {EntryID(BatchOf(last.ids)[k])}
                   /\ ~HasUnit(fs, EntryID(BatchOf(last.ids)[k]))

C7_Witness ==
    /\ last.op = "DeletePost" /\ Succeeded
    /\ Len(BatchOf(last.ids)) = 2
    /\ WellFormed(BatchOf(last.ids)[1]) /\ WellFormed(BatchOf(last.ids)[2])
    /\ ~HasUnit(pre.fs, EntryID(BatchOf(last.ids)[1]))
    /\ HasUnit(pre.fs, EntryID(BatchOf(last.ids)[2]))
    /\ ~HasUnit(fs, EntryID(BatchOf(last.ids)[2]))

FirstMalformed(ids) ==
    CHOOSE k \in 1..Len(BatchOf(ids)) :
        /\ Malformed(BatchOf(ids)[k])
        /\ \A j \in 1..(k - 1) : ~Malformed(BatchOf(ids)[j])

\* the files of the unit of identifier i, in either shape
UnitPaths(files, i) ==
    {p \in DOMAIN files : p[1] = FormatInt(i) \/ p = LooseFile(i)}

UnitOf(files, i) == [p \in UnitPaths(files, i) |-> files[p]]

\* the removal DeletePost makes for identifier i has been made and still holds:
\* the directory is gone if the unit had media, else the loose file is gone
\* (unless the file system refused to remove it)
StaysRemoved(i) ==
    IF ImagesOf(pre.fs, FormatInt(i)) # {}
    THEN ~HasDirectory(fs, i)
    ELSE last.fault.call = "Remove" \/ ~HasLooseFile(fs, i)

CommitCalls(calls) == {c \in 1..Len(calls) : calls[c][1] = "CommitAndPush"}

\* C8: if entry k of a delete batch is no integer, DeletePost returns an
\* error, changes neither disk nor staging area for entry k and the entries
\* after it, never calls commitAndPublish, and keeps the deletions made for
\* the entries before k.
C8_MalformedEntryAborts ==
    (last.op = "DeletePost" /\ \E k \in 1..Len(BatchOf(last.ids)) :
                                   Malformed(BatchOf(last.ids)[k])) =>
        LET batch == BatchOf(last.ids)
            k == FirstMalformed(last.ids)
            before == {EntryID(batch[j]) : j \in {x \in 1..(k - 1) : WellFormed(batch[x])}}
            after == {EntryID(batch[j]) : j \in {x \in k..Len(batch) : WellFormed(batch[x])}}
        IN /\ last.err # ""
           /\ CommitCalls(last.calls) = {}
           /\ git.head = pre.git.head /\ git.commits = pre.git.commits
           /\ \A i \in after \ before :
                 /\ UnitOf(fs.files, i) = UnitOf(pre.fs.files, i)
                 /\ HasDirectory(fs, i) = HasDirectory(pre.fs, i)
                 /\ UnitOf(git.index, i) = UnitOf(pre.git.index, i)
           /\ \A c \in 1..Len(last.calls) :
                 \E i \in before : last.calls[c][2] \in
                     {LooseFile(i)} \cup {<<FormatInt(i), n>> : n \in DirNames(pre.fs, FormatInt(i))}
           /\ \A d \in 1..Len(last.done) :
                 /\ last.done[d] \in before
                 /\ StaysRemoved(last.done[d])

C8_Witness ==
    /\ last.op = "DeletePost"
    /\ Len(BatchOf(last.ids)) = 2
    /\ Malformed(BatchOf(last.ids)[2])
    /\ last.err = "invalid post ID"
    /\ last.done = <<EntryID(BatchOf(last.ids)[1])>>
    /\ HasDirectory(pre.fs, last.done[1])
    /\ ~HasUnit(fs, last.done[1])

\* C9: CreatePost and EditPost call nothing of the version-control
\* collaborator but Add, on every path, and no commit is made.
C9_CreateEditOnlyStage ==
    last.op \in {"CreatePost", "EditPost"} =>
        /\ \A c \in 1..Len(last.calls) : last.calls[c][1] = "Add"
        /\ git.head = pre.git.head
        /\ git.commits = pre.git.commits

C9_Witness ==
    /\ last.op = "CreatePost"
    /\ last.err = "failed to add image file to git"
    /\ Len(last.calls) = 3
    /\ git.index # pre.git.index

\* C10: on a batch with no malformed entry and no failed directory removal,
\* DeletePost calls commitAndPublish exactly once, as its last call and with
\* the batch as message; it returns an error exactly when no commit was made
\* or the push failed, which includes the case that nothing is staged; the
\* deletions stay on disk either way.
C10_CommitOnceAtEnd ==
    (/\ last.op = "DeletePost"
     /\ \A k \in 1..Len(BatchOf(last.ids)) : ~Malformed(BatchOf(last.ids)[k])
     /\ last.err # "failed to remove post directory") =>
        /\ CommitCalls(last.calls) = {Len(last.calls)}
        /\ last.calls[Len(last.calls)] = <<"CommitAndPush", last.ids>>
        /\ (last.err = "") <=>
              /\ Len(git.commits) = Len(pre.git.commits) + 1
              /\ git.head = git.index
              /\ last.fault # [call |-> "Push", n |-> 1]
        /\ git.index = pre.git.head => last.err # ""
        /\ \A d \in 1..Len(last.done) : StaysRemoved(last.done[d])

C10_Witness ==
    /\ last.op = "DeletePost"
    /\ last.err = "failed to commit and push deletion"
    /\ last.fault = [call |-> "Push", n |-> 1]
    /\ Len(last.done) = 2
    /\ HasUnit(pre.fs, last.done[1]) /\ HasUnit(pre.fs, last.done[2])
    /\ ~HasUnit(fs, last.done[1]) /\ ~HasUnit(fs, last.done[2])
    /\ Len(git.commits) = 1

-----------------------------------------------------------------------------
\* the paths whose presence or content differs between two file maps
Changed(f, g) ==
    {p \in (DOMAIN f) \cup (DOMAIN g) :
        \/ p \notin DOMAIN f
        \/ p \notin DOMAIN g
        \/ f[p] # g[p]}

SameAt(f, g, p) == p \notin Changed(f, g)

\* C11: when the n-th Add of a CreatePost or EditPost fails, the operation
\* returns a staging error, the failed Add is its last call, no file is
\* written after it (n writes, n stage calls in all), every media file after
\* the failing step is neither on disk nor staged, and a failed staging of the
\* markup file in EditPost leaves the new media buffer unwritten.
C11_StagingFailureAborts ==
    (/\ last.op \in {"CreatePost", "EditPost"}
     /\ last.fault.call = "Add"
     /\ last.cnt["Add"] >= last.fault.n) =>
        LET n == last.fault.n
            id == FormatInt(last.editablePostID)
        IN /\ last.err \in {"failed to add post file to git",
                            "failed to add image file to git"}
           /\ last.cnt["Add"] = n /\ last.cnt["WriteFile"] = n
           /\ Len(last.calls) = n /\ last.calls[n][1] = "Add"
           /\ last.calls[n][2] \notin Changed(git.index, pre.git.index)
           /\ Cardinality(Changed(fs.files, pre.fs.files)) <= n
           /\ Cardinality(Changed(git.index, pre.git.index)) <= n - 1
           /\ last.op = "CreatePost" =>
                 \A i \in n..Len(last.media) :
                    LET p == <<id, ImageName(i - 1, getImageFormat(last.media[i]))>>
                    IN SameAt(fs.files, pre.fs.files, p)
                       /\ SameAt(git.index, pre.git.index, p)
           /\ (last.op = "EditPost" /\ last.err = "failed to add post file to git") =>
                 /\ n = 1 /\ last.cnt["MkdirAll"] <= 1
                 /\ Changed(fs.files, pre.fs.files) \subseteq {last.calls[1][2]}
                 /\ git.index = pre.git.index

C11_Witness ==
    /\ last.op = "CreatePost"
    /\ Len(last.media) = 2
    /\ last.fault = [call |-> "Add", n |-> 2]
    /\ last.err = "failed to add image file to git"
    /\ ~HasUnit(pre.fs, last.post.ID)
    /\ <<FormatInt(last.post.ID), IMAGE_0_JPG>> \in DOMAIN fs.files
    /\ ~\E p \in DOMAIN fs.files : p[1] = FormatInt(last.post.ID) /\ Len(p) = 2
                                   /\ HasPrefix(p[2], IMAGE_ \o <<"1">>)

-----------------------------------------------------------------------------
\* the same DeletePost from the same stores, with no call failing
Unfaulted == DeletePost(Run(pre.fs, pre.git, NoFault), last.ids)

\* the n-th stage-remove call of the last DeletePost was made and failed
StageRemoveFailed ==
    /\ last.op = "DeletePost"
    /\ last.fault.call = "GitRemove"
    /\ last.cnt["GitRemove"] >= last.fault.n

\* the path of the n-th stage-remove call
FailedPath ==
    LET removes == SelectSeq(last.calls, LAMBDA c : c[1] = "Remove")
    IN removes[last.fault.n][2]

-----------------------------------------------------------------------------
\* C13: an EditPost with content on a store that holds no post unit resolves
\* to the requested identifier, returns no error and leaves a unit for that
\* identifier on disk and staged.
C13_EmptyStoreFallsBack ==
    (/\ last.op = "EditPost"
     /\ last.post.Content # <<>>
     /\ OnDiskIDs(pre.fs) = {}) =>
        /\ last.err = ""
        /\ last.editablePostID = last.post.ID
        /\ HasUnit(fs, last.post.ID)
        /\ UnitPaths(git.index, last.post.ID) # {}

-----------------------------------------------------------------------------
\* the on-disk identifiers nearest to identifier r
Nearest(f, r) ==
    {a \in OnDiskIDs(f) : \A b \in OnDiskIDs(f) : abs(r - a) <= abs(r - b)}

\* C14: when two on-disk identifiers are equidistant from the requested one
\* and nearest to it, EditPost resolves to the lower of the two.
C14_TieGoesToLower ==
    (/\ last.op = "EditPost"
     /\ last.err # "failed to find editable post"
     /\ Cardinality(Nearest(pre.fs, last.post.ID)) = 2) =>
        \A b \in Nearest(pre.fs, last.post.ID) : last.editablePostID <= b

-----------------------------------------------------------------------------
StartsWith(b, sig) == Len(b) >= Len(sig) /\ SubSeq(b, 1, Len(sig)) = sig

IsWebP(b) ==
    /\ StartsWith(b, <<82, 73, 70, 70>>)
    /\ Len(b) >= 12 /\ SubSeq(b, 9, 12) = <<87, 69, 66, 80>>

\* C15: getImageFormat returns one of jpg, png, gif, webp; for a buffer of at
\* least 4 bytes png on the prefix 89 50 4E 47, gif on 47 49 46, webp on RIFF
\* with WEBP at offset 8, jpg on FF D8 FF; jpg for every buffer shorter than
\* 4 bytes and for every buffer matching no signature.
C15_SignatureDecides ==
    output # <<>> =>
        /\ output[1] \in {JPG, PNG, GIF, WEBP}
        /\ Len(input) < 4 => output[1] = JPG
        /\ Len(input) >= 4 =>
              /\ StartsWith(input, <<137, 80, 78, 71>>) => output[1] = PNG
              /\ StartsWith(input, <<71, 73, 70>>) => output[1] = GIF
              /\ IsWebP(input) => output[1] = WEBP
              /\ StartsWith(input, <<255, 216, 255>>) => output[1] = JPG
              /\ (/\ ~StartsWith(input, <<137, 80, 78, 71>>)
                  /\ ~StartsWith(input, <<71, 73, 70>>)
                  /\ ~IsWebP(input)) => output[1] = JPG

-----------------------------------------------------------------------------
\* the fenced blocks of a content, in their order
FencesOf(pieces) == SelectSeq(pieces, LAMBDA piece : piece.kind = "fence")

\* out holds, from position from on and one after the other, a fenced block
\* for each of fences: the opening line of its language, then a text with no
\* hard line break in it, then the closing line
RECURSIVE FencesInOrder(_, _, _)
FencesInOrder(out, fences, from) ==
    IF Len(fences) = 0 THEN TRUE
    ELSE LET open == FENCE \o Head(fences).language \o NL
             Closed(p, e) ==
                 /\ e # 0
                 /\ ~Contains(SubSeq(out, p + Len(open), e - 1), HARD_BREAK)
                 /\ FencesInOrder(out, Tail(fences), e + Len(NL \o FENCE))
             Opened(p) ==
                 /\ p # 0
                 /\ Closed(p, IndexFrom(out, NL \o FENCE, p + Len(open) - 1))
         IN Opened(IndexFrom(out, open, from))

\* C16: the output of ProcessContent holds the fenced blocks of its input in
\* their order, each opening with the fence and its own language; no newline
\* inside a block is made a hard line break, while a newline of plain text
\* outside the blocks is.
C16_FencedBlocksKept ==
    \A k \in 1..Len(output) :
        /\ FencesInOrder(output[k], FencesOf(input), 1)
        /\ (\E n \in 1..Len(input) : input[n] = Text(<<"a", "\n", "b">>)) =>
              Contains(output[k], <<"a">> \o HARD_BREAK \o <<"b">>)

C16_Witness ==
    /\ input = <<Fenced(GO, <<"x", "\n", "y", "\n", "\n">>),
                 Text(<<"a", "\n", "b">>), Fenced(PY, <<"x">>)>>
    /\ Len(output) = 1
    /\ output[1] = FENCE \o GO \o <<"\n", "x", "\n", "y", "\n">> \o FENCE
                   \o <<"a", " ", " ", "\n", "b">>
                   \o FENCE \o PY \o <<"\n", "x", "\n">> \o FENCE

-----------------------------------------------------------------------------
\* C17: two invocations of ProcessContent on the same content return the
\* same output, whatever the orders in which the side table is ranged over.
C17_Deterministic ==
    Len(output) = 2 => output[1] = output[2]

-----------------------------------------------------------------------------
\* strings.Count
RECURSIVE Count(_, _)
Count(s, sub) ==
    LET Cut(i) == IF i = 0 THEN 0
                  ELSE 1 + Count(SubSeq(s, i + Len(sub), Len(s)), sub)
    IN Cut(IndexFrom(s, sub, 1))

\* the side table of the invocation on the content input
SideTable == ExtractCodeBlocks(EscapeInlineCode(RenderAll(input)), 0).blocks

\* C18: the placeholders of one invocation differ from each other and occur
\* nowhere in the content, and the output holds each block exactly once: as
\* many fences as the blocks open and close, and no placeholder left.
C18_PlaceholdersCollisionFree ==
    \A k \in 1..Len(output) :
        /\ \A i, j \in 1..Len(SideTable) :
              SideTable[i].placeholder = SideTable[j].placeholder => i = j
        /\ \A i \in 1..Len(SideTable) :
              /\ ~Contains(RenderAll(input), SideTable[i].placeholder)
              /\ ~Contains(output[k], SideTable[i].placeholder)
        /\ Count(output[k], FENCE) = 2 * Len(SideTable)

-----------------------------------------------------------------------------
\* C19: for every fenced block of the content, the output holds the opening
\* line of its language, then BODY without its trailing newlines and
\* otherwise unchanged, then the closing line.
C19_BodyVerbatim ==
    \A k \in 1..Len(output) : \A n \in 1..Len(input) :
        input[n].kind = "fence" =>
            Contains(output[k],
                     FENCE \o input[n].language \o NL
                     \o TrimRightNewlines(input[n].body) \o NL \o FENCE)

-----------------------------------------------------------------------------
\* C20: for a content with no fenced block and no blockquote, every newline
\* of the output follows two spaces or another newline, the output holds no
\* doubled hard line break, and a content of plain text without a newline
\* (entities included) is returned as it is.
C20_HardBreaksCollapsed ==
    (\A n \in 1..Len(input) : input[n].kind \notin {"fence", "quote"}) =>
        \A k \in 1..Len(output) :
            /\ \A i \in 1..Len(output[k]) :
                  output[k][i] = "\n" =>
                      \/ i >= 3 /\ output[k][i - 1] = " " /\ output[k][i - 2] = " "
                      \/ i >= 2 /\ output[k][i - 1] = "\n"
            /\ ~Contains(output[k], DOUBLE_BREAK)
            /\ (\A n \in 1..Len(input) :
                    input[n].kind = "text" /\ ~Contains(input[n].body, NL)) =>
                  output[k] = RenderAll(input)

C20_Witness ==
    /\ input = <<Text(<<"a", "\n", "b">>), Text(NL), Text(NL)>>
    /\ Len(output) = 1
    /\ output[1] = <<"a", " ", " ", "\n", "b", " ", " ", "\n", "\n">>

-----------------------------------------------------------------------------
\* C21: what RemoveAddressPattern returns holds no match of the address
\* pattern: ExtractTitle of it is the fallback title alone, and removing the
\* pattern from it once more changes nothing.
C21_NoResidualAddress ==
    Len(output) = 2 =>
        /\ FindAddress(output[2], 1).at = 0
        /\ ExtractTitle(output[2], CHANNEL) = CHANNEL
        /\ RemoveAddressPattern(output[2]) = output[2]

-----------------------------------------------------------------------------
\* the lines of a text
Lines(text) == Split(text, "\n")

\* the names of a list, each between double quotes, a comma and a space
\* between one and the next
RECURSIVE QuotedList(_)
QuotedList(names) ==
    IF Len(names) = 0 THEN <<>>
    ELSE IF Len(names) = 1 THEN <<"\"">> \o names[1] \o <<"\"">>
    ELSE QuotedList(SubSeq(names, 1, Len(names) - 1))
         \o <<",", " ", "\"">> \o names[Len(names)] \o <<"\"">>

\* C22: the front matter has the line [extra] if and only if post.ImageNames
\* is not empty; the line after it is then the images array, the names in
\* their order, each double-quoted, separated by a comma and a space; with
\* no image name no line is [extra] and none starts with images.
C22_ExtraIffImages ==
    output # <<>> =>
        LET lines == Lines(output[1])
            names == input.ImageNames
        IN /\ (\E i \in 1..Len(lines) : lines[i] = EXTRA) <=> Len(names) > 0
           /\ Len(names) > 0 =>
                 \E i \in 1..(Len(lines) - 1) :
                     /\ lines[i] = EXTRA
                     /\ lines[i + 1] = IMAGES_OPEN \o QuotedList(names) \o <<"]">>
                     /\ \A j \in 1..Len(lines) :
                           j # i => lines[j] # EXTRA
                     /\ \A j \in 1..Len(lines) :
                           j # i + 1 => ~HasPrefix(lines[j], <<"i", "m", "a", "g", "e", "s">>)
           /\ Len(names) = 0 =>
                 \A i \in 1..Len(lines) :
                     /\ lines[i] # EXTRA
                     /\ ~HasPrefix(lines[i], <<"i", "m", "a", "g", "e", "s">>)

\* a front matter was built for a title that spells the section name and
\* two image names
C22_Witness ==
    /\ output # <<>>
    /\ input.Title = EXTRA
    /\ Len(input.ImageNames) = 2
    /\ input.ImageNames[1] # input.ImageNames[2]

-----------------------------------------------------------------------------
\* a basic string of the front matter's language, read from position i of s
\* (after the opening quote): a backslash escapes the character after it, the
\* first quote that is not escaped closes the string, and nothing may follow
\* it on the line
RECURSIVE DecodeBasicString(_, _, _)
DecodeBasicString(s, i, acc) ==
    IF i > Len(s) THEN [ok |-> FALSE, value |-> acc]
    ELSE IF s[i] = "\"" THEN [ok |-> i = Len(s), value |-> acc]
    ELSE IF s[i] = "\\"
         THEN IF i + 1 <= Len(s) /\ s[i + 1] \in {"\"", "\\"}
              THEN DecodeBasicString(s, i + 2, Append(acc, s[i + 1]))
              ELSE [ok |-> FALSE, value |-> acc]
    ELSE DecodeBasicString(s, i + 1, Append(acc, s[i]))

\* the title line of a front matter built for a title of one line
TitleLine(text) == Lines(text)[2]

\* C23: the title line of the front matter is title = followed by a
\* double-quoted string that is closed at the end of the line and decodes to
\* post.Title.
C23_TitleDecodes ==
    output # <<>> =>
        /\ HasPrefix(TitleLine(output[1]), TITLE_OPEN)
        /\ DecodeBasicString(TitleLine(output[1]), Len(TITLE_OPEN) + 1, <<>>)
              = [ok |-> TRUE, value |-> input.Title]

-----------------------------------------------------------------------------
\* C24: a successful EditPost with content and no image names of the caller,
\* resolved to a unit that holds media files, leaves <e>/index.md with an
\* images list equal to the names of those media files in lexicographic
\* order, and leaves each of those media files on disk as it was.
C24_ExistingMediaKept ==
    (/\ last.op = "EditPost" /\ Succeeded
     /\ last.post.Content # <<>>
     /\ last.post.ImageNames = <<>>
     /\ ImagesOf(pre.fs, FormatInt(last.editablePostID)) # {}) =>
        LET e == FormatInt(last.editablePostID)
            existing == ImagesOf(pre.fs, e)
        IN /\ IsFile(fs, <<e, INDEX_MD>>)
           /\ fs.files[<<e, INDEX_MD>>].ImageNames = SortNames(existing)
           /\ \A i, j \in 1..Cardinality(existing) :
                 i < j => StrLess(fs.files[<<e, INDEX_MD>>].ImageNames[i],
                                  fs.files[<<e, INDEX_MD>>].ImageNames[j])
           /\ \A n \in existing : SameAt(pre.fs.files, fs.files, <<e, n>>)

\* C24 amended: the images list is that of the existing media files in
\* lexicographic order, and each existing media file is left as it was, but
\* for the one named image_<r-e>.<ext> of a media buffer of the same call,
\* which then holds that buffer.
C24_ExistingMediaKeptButWritten ==
    (/\ last.op = "EditPost" /\ Succeeded
     /\ last.post.Content # <<>>
     /\ last.post.ImageNames = <<>>
     /\ ImagesOf(pre.fs, FormatInt(last.editablePostID)) # {}) =>
        LET e == FormatInt(last.editablePostID)
            existing == ImagesOf(pre.fs, e)
            Written(n) ==
                /\ Len(last.media) = 1
                /\ n = ExpectedImage(last.post.ID - last.editablePostID, last.media[1])
        IN /\ IsFile(fs, <<e, INDEX_MD>>)
           /\ fs.files[<<e, INDEX_MD>>].ImageNames = SortNames(existing)
           /\ \A i, j \in 1..Cardinality(existing) :
                 i < j => StrLess(fs.files[<<e, INDEX_MD>>].ImageNames[i],
                                  fs.files[<<e, INDEX_MD>>].ImageNames[j])
           /\ \A n \in existing :
                 IF Written(n) THEN fs.files[<<e, n>>] = last.media[1]
                 ELSE SameAt(pre.fs.files, fs.files, <<e, n>>)

\* a unit with two media files was rewritten by a call whose buffer went over
\* the first of them
C24_Witness ==
    /\ last.op = "EditPost" /\ Succeeded
    /\ last.post.Content # <<>>
    /\ last.post.ImageNames = <<>>
    /\ Cardinality(ImagesOf(pre.fs, FormatInt(last.editablePostID))) = 2
    /\ Len(last.media) = 1
    /\ ExpectedImage(0, last.media[1]) \in ImagesOf(pre.fs, FormatInt(last.editablePostID))
    /\ last.post.ID = last.editablePostID
    /\ Len(fs.files[<<FormatInt(last.editablePostID), INDEX_MD>>].ImageNames) = 2

-----------------------------------------------------------------------------
\* the paths unit i can be made of: <i>.md, <i>/index.md and <i>/image_*
InUnit(p, i) ==
    \/ p = LooseFile(i)
    \/ /\ Len(p) = 2 /\ p[1] = FormatInt(i)
       /\ (p[2] = INDEX_MD \/ HasPrefix(p[2], IMAGE_))

\* C25: when a unit exists and EditPost with requested id r resolves to
\* e # r, every file written and every path staged is a path of unit e, no
\* directory but <e>/ is created, no file or directory named after r is
\* created or modified, and every other unit on disk is as it was.
C25_OnlyResolvedUnitTouched ==
    (/\ last.op = "EditPost"
     /\ last.err # "failed to find editable post"
     /\ OnDiskIDs(pre.fs) # {}
     /\ last.editablePostID # last.post.ID) =>
        LET e == last.editablePostID
            r == last.post.ID
        IN /\ \A p \in Changed(pre.fs.files, fs.files) : InUnit(p, e)
           /\ \A p \in Changed(pre.git.index, git.index) : InUnit(p, e)
           /\ \A k \in 1..Len(last.calls) :
                 last.calls[k][1] = "Add" /\ InUnit(last.calls[k][2], e)
           /\ pre.fs.dirs \subseteq fs.dirs
           /\ fs.dirs \ pre.fs.dirs \subseteq {FormatInt(e)}
           /\ ~HasUnit(fs, r)
           /\ UnitPaths(fs.files, r) = {}
           /\ \A i \in IDs \ {e} : UnitOf(fs.files, i) = UnitOf(pre.fs.files, i)
           /\ git.head = pre.git.head

\* the requested id has no unit, two others have; the nearest was rewritten
\* and given the media buffer, under the offset of the requested id
C25_Witness ==
    /\ last.op = "EditPost" /\ Succeeded
    /\ Cardinality(OnDiskIDs(pre.fs)) = 2
    /\ last.editablePostID # last.post.ID
    /\ last.post.Content # <<>>
    /\ Len(last.media) = 1
    /\ Cardinality(Changed(pre.fs.files, fs.files)) = 2
    /\ \E i \in OnDiskIDs(pre.fs) \ {last.editablePostID} :
          UnitOf(fs.files, i) = UnitOf(pre.fs.files, i) /\ UnitPaths(fs.files, i) # {}

-----------------------------------------------------------------------------
\* the images array of the front matter of <d>/index.md names exactly the
\* image_* files of the directory d
ListsItsImages(f, d) ==
    IsFile(f, <<d, INDEX_MD>>) =>
        {f.files[<<d, INDEX_MD>>].ImageNames[k] :
            k \in 1..Len(f.files[<<d, INDEX_MD>>].ImageNames)} = ImagesOf(f, d)

\* C27 as stated: after any sequence of successful CreatePost and EditPost
\* calls, for every unit directory the images array of its index.md names
\* exactly the image_* files of the directory.
C27_ImagesListed ==
    (\A k \in 1..Len(hist) : hist[k].ok /\ hist[k].op \in {"CreatePost", "EditPost"}) =>
        \A d \in fs.dirs : ListsItsImages(fs, d)

\* C27 amended: after any sequence of successful CreatePost calls, each for
\* an identifier that has no unit yet, and successful EditPost calls that
\* carry neither a media buffer nor image names of the caller, the images
\* array of every unit directory's index.md names exactly its image_* files.
C27_ImagesListedWithoutEditMedia ==
    (\A k \in 1..Len(hist) :
        /\ hist[k].ok
        /\ \/ hist[k].op = "CreatePost" /\ hist[k].fresh
           \/ hist[k].op = "EditPost" /\ hist[k].media = 0 /\ hist[k].names = 0) =>
        \A d \in fs.dirs : IsFile(fs, <<d, INDEX_MD>>) /\ ListsItsImages(fs, d)

\* a unit created with two media files of different formats was then
\* rewritten by an EditPost with content
C27_Witness ==
    /\ Len(hist) = 2
    /\ hist[1] = [op |-> "CreatePost", ok |-> TRUE, fresh |-> TRUE, media |-> 2,
                  names |-> 0]
    /\ hist[2] = [op |-> "EditPost", ok |-> TRUE, fresh |-> FALSE, media |-> 0,
                  names |-> 0]
    /\ last.post.Content # <<>>
    /\ ImagesOf(fs, FormatInt(last.editablePostID)) = {ImageName(0, JPG), ImageName(1, PNG)}

-----------------------------------------------------------------------------
\* C28 as stated: the index of the media file a successful EditPost writes
\* for its buffer is the index of no media file the resolved unit held.
C28_FreshIndex ==
    (last.op = "EditPost" /\ Succeeded /\ Len(last.media) = 1) =>
        \A n \in ImagesOf(pre.fs, FormatInt(last.editablePostID)) :
            ImageIndex(n) # last.post.ID - last.editablePostID

\* C28 amended: a successful EditPost with a media buffer adds or replaces
\* the one media file <e>/image_<r-e>.<ext>, which then holds the buffer, and
\* leaves every media file of another name in the unit as it was.
C28_OnlyOffsetFileWritten ==
    (last.op = "EditPost" /\ Succeeded /\ Len(last.media) = 1) =>
        LET e == FormatInt(last.editablePostID)
            name == ExpectedImage(last.post.ID - last.editablePostID, last.media[1])
        IN /\ ImagesOf(fs, e) = ImagesOf(pre.fs, e) \cup {name}
           /\ fs.files[<<e, name>>] = last.media[1]
           /\ \A n \in ImagesOf(pre.fs, e) \ {name} :
                 SameAt(pre.fs.files, fs.files, <<e, n>>)

\* the buffer of a media-only edit went over the unit's image_0 of the same
\* format, of other bytes, while a second media file stayed as it was
C28_Witness ==
    /\ last.op = "EditPost" /\ Succeeded /\ Len(last.media) = 1
    /\ last.post.Content = <<>>
    /\ last.post.ID = last.editablePostID
    /\ LET e == FormatInt(last.editablePostID)
           name == ExpectedImage(0, last.media[1])
       IN /\ name \in ImagesOf(pre.fs, e)
          /\ pre.fs.files[<<e, name>>] # last.media[1]
          /\ fs.files[<<e, name>>] = last.media[1]
          /\ Cardinality(ImagesOf(pre.fs, e)) = 2

-----------------------------------------------------------------------------
\* the commit the last DeletePost made
Committed == Len(git.commits) = Len(pre.git.commits) + 1

LastCommit == git.commits[Len(git.commits)]

\* path p is a path of one of the identifiers the last DeletePost processed
OfBatch(p) ==
    \E k \in 1..Len(last.done) :
        p[1] = FormatInt(last.done[k]) \/ p = LooseFile(last.done[k])

\* C30 as stated: every path of the commit DeletePost makes is a file of an
\* identifier of its batch, and is removed by the commit.
C30_CommitOnlyBatchRemovals ==
    (last.op = "DeletePost" /\ Committed) =>
        \A p \in LastCommit.paths : OfBatch(p) /\ p \notin DOMAIN git.head

\* C30 amended: the commit DeletePost makes carries the batch as its message
\* and the whole staging area: each of its paths is a removed file of the
\* batch or a change that was staged before the call, and every change
\* staged before the call on a path outside the batch is part of it.
C30_CommitSweepsStaged ==
    (last.op = "DeletePost" /\ Committed) =>
        /\ LastCommit.message = last.ids
        /\ git.head = git.index
        /\ LastCommit.paths = Changed(pre.git.head, git.head)
        /\ \A p \in LastCommit.paths :
              \/ OfBatch(p) /\ p \notin DOMAIN git.head
              \/ p \in Changed(pre.git.index, pre.git.head)
        /\ \A p \in Changed(pre.git.index, pre.git.head) :
              ~OfBatch(p) => p \in LastCommit.paths

\* a CreatePost staged a new unit, then a DeletePost of another identifier
\* committed the removal together with the new unit
C30_Witness ==
    /\ Len(hist) = 2
    /\ hist[1].op = "CreatePost" /\ hist[1].ok /\ hist[1].fresh
    /\ last.op = "DeletePost" /\ Succeeded /\ Committed
    /\ Len(last.done) = 1
    /\ \E p \in LastCommit.paths : OfBatch(p) /\ p \notin DOMAIN git.head
    /\ \E p \in LastCommit.paths :
          ~OfBatch(p) /\ p \in DOMAIN git.head /\ p \notin DOMAIN pre.git.head

-----------------------------------------------------------------------------
\* the rules of the Validate method of the request's type do not all hold
ViolatesRules(req) == req.type \in ValidatableTypes /\ ~Validate(req.type, req)

\* C26: an operation called with a request that violates the rules of its
\* Validate method returns a validation error and sends no HTTP request.
C26_ValidatedBeforeSent ==
    (output # <<>> /\ ViolatesRules(input)) =>
        /\ output[1].err = "validation failed"
        /\ output[1].sent = <<>>

-----------------------------------------------------------------------------
\* the addresses that RemoveAddressPattern drops from content: its matches at
\* or after from, trimmed
RECURSIVE RemovedAddresses(_, _)
RemovedAddresses(content, from) ==
    LET Found(m) ==
            IF m.at = 0 THEN {}
            ELSE {TrimSpace(SubSeq(content, m.at, m.next - 1))}
                 \cup RemovedAddresses(content, m.next)
    IN Found(FindAddress(content, from))

\* the post files the last operation wrote into its unit
WrittenPostFiles ==
    {p \in {LooseFile(last.editablePostID),
            <<FormatInt(last.editablePostID), INDEX_MD>>} \cap DOMAIN fs.files :
        p \in DOMAIN pre.fs.files => fs.files[p] # pre.fs.files[p]}

\* C29: every address that a successful CreatePost or EditPost removes from
\* the body it persists appears in the title it persists with that body.
C29_AddressKeptInTitle ==
    (last.op \in {"CreatePost", "EditPost"} /\ Succeeded
        /\ last.post.Content # <<>>) =>
        \A p \in WrittenPostFiles :
            \A t \in RemovedAddresses(ProcessContent(last.post.Content,
                                                     OnlyOrder(last.post.Content)), 1) :
                Contains(fs.files[p].Title, t)

====
